---- MODULE Spec2Model ----
(***************************************************************************)
(* A model of the benchmark orchestration engine of llm-benchmark:         *)
(*   - the sandbox tool set      (src/src/agent/common/tools.py)            *)
(*   - the agent loop driver     (src/src/agent/common/agent_client.py)     *)
(*   - the orchestrators         (src/src/*/*/test_runner.py)               *)
(*   - the batch driver          (src/run_test.py)                          *)
(*   - the validators            (src/src/*/*/validator.py)                 *)
(*   - the inference client      (src/src/common/ollama_client.py)          *)
(*   - the GPU monitor           (src/src/gpu_monitor.py)                   *)
(*                                                                         *)
(* Paths are sequences of segments; an absolute path starts with "/".      *)
(* The file system is a function from the absolute, normalised paths that  *)
(* exist to "DIR" or to the content of the file.  There are no symbolic    *)
(* links in the modelled file systems, so Path.resolve() is the lexical    *)
(* normalisation of "." and "..".                                          *)
(***************************************************************************)
EXTENDS Integers, Sequences, FiniteSets, TLC

VARIABLES
    fs,        \* the file system: absolute path -> "DIR" | content
    roots,     \* SpecTools: tool set -> the root it was made for
    allow,     \* SpecTools: tool set -> allowed_paths given to make_tools
    ret,       \* SpecTools: the last tool call and what it returned
    wroteBy,   \* SpecTools: file -> tool set whose write_file wrote it last
    family,    \* Spec: the orchestrator family ("refactoring", "creation", "agent")
    binding,   \* Spec: what the name run_agent of the agentic runner is bound to
    specJson,  \* Spec: the content of validation_spec.json
    inst,      \* Spec: the orchestrator instance (self), once constructed
    pc,        \* Spec: the position of the constructor / of run()
    runNo,     \* Spec: run_number of the current (or last) run
    loc,       \* Spec: the local variables of run()
    exc,       \* Spec: the exception that left the constructor or run()
    result,    \* Spec: the result run() returned
    writes,    \* Spec: the writes of the target file during the current run
    steps,     \* Spec: LLM turns the agent loop has taken in this run
    log,       \* Spec: tool_call_log of the agent loop
    fsAtStart, \* Spec: the file system when the current run was called
    ag,        \* SpecAgent: the local variables of run_agent and what it returned
    memory,    \* SpecAgent: agent.memory.steps
    clock,     \* SpecAgent: time.time()
    batch,     \* SpecBatch: the local variables of main and of run_fixture
    vcall      \* SpecValidators, SpecChat, SpecExtract, SpecGpu: a call, its
               \* arguments, its local state and its result

toolVars == <<roots, allow, ret, wroteBy>>
orchVars == <<family, binding, specJson, inst, pc, runNo, loc, exc, result, writes,
              steps, log, fsAtStart>>
driverVars == <<ag, memory, clock>>
vars == <<fs, roots, allow, ret, wroteBy, family, binding, specJson, inst, pc, runNo,
          loc, exc, result, writes, steps, log, fsAtStart, ag, memory, clock, batch,
          vcall>>

----------------------------------------------------------------------------
(* pathlib *)

IsAbs(p) == p # <<>> /\ p[1] = "/"

\* target_project / relative_path: an absolute right operand replaces the left
Join(base, p) == IF IsAbs(p) THEN p ELSE base \o p

RECURSIVE Norm(_, _)
Norm(acc, rest) ==
    IF rest = <<>> THEN acc
    ELSE LET s == Head(rest) IN
         IF s = "." THEN Norm(acc, Tail(rest))
         ELSE IF s = ".."
              THEN Norm(IF Len(acc) > 1 THEN SubSeq(acc, 1, Len(acc) - 1) ELSE acc,
                        Tail(rest))
              ELSE Norm(Append(acc, s), Tail(rest))

\* Path.resolve() of an absolute path
Resolve(p) == Norm(<<"/">>, Tail(p))

\* full.relative_to(root) succeeds
IsInside(root, full) ==
    Len(root) <= Len(full) /\ SubSeq(full, 1, Len(root)) = root

RelativeTo(root, full) == SubSeq(full, Len(root) + 1, Len(full))

Parent(p) == IF Len(p) > 1 THEN SubSeq(p, 1, Len(p) - 1) ELSE p

\* p and the directories above it, "/" left out
Ancestors(p) == { SubSeq(p, 1, k) : k \in 2..Len(p) }

IsDir(f, n) == n \in DOMAIN f /\ f[n] = "DIR"
IsFile(f, n) == n \in DOMAIN f /\ f[n] # "DIR"

----------------------------------------------------------------------------
(* make_tools: the four closures over target_project and allowed_paths *)

\* A mutant: the containment check on the joined path, before it is resolved
SafeResolveUnresolved(root, relative_path) ==
    LET full == Resolve(Join(root, relative_path))
    IN  [ok |-> IsInside(root, Join(root, relative_path)), full |-> full]

\* _safe_resolve: ok = FALSE stands for the ValueError of relative_to
SafeResolve(root, relative_path) ==
    LET full == Resolve(Join(root, relative_path))
    IN  [ok |-> IsInside(root, full), full |-> full]

NoIO == <<>>

Out(kind, why, val, io, f) ==
    [kind |-> kind, why |-> why, val |-> val, io |-> io, fs |-> f]

\* read_file(path): the content, or an "ERROR: ..." string
read_file(root, path, f) ==
    LET r == SafeResolve(root, path)
    IN  IF ~r.ok THEN Out("ERROR", "outside", "", NoIO, f)
        ELSE IF r.full \notin DOMAIN f
             THEN Out("ERROR", "not found", "", <<[op |-> "read", node |-> r.full]>>, f)
        ELSE IF f[r.full] = "DIR"
             THEN Out("ERROR", "other", "", <<[op |-> "read", node |-> r.full]>>, f)
        ELSE Out("CONTENT", "", f[r.full], <<[op |-> "read", node |-> r.full]>>, f)

\* full.parent.mkdir(parents=True, exist_ok=True): the directories it adds
MkdirParents(f, dir) ==
    [n \in DOMAIN f \cup Ancestors(dir) |-> IF n \in DOMAIN f THEN f[n] ELSE "DIR"]

\* A mutant: the allow-list compared by resolved path, not by spelling
IsAllowedResolved(root, allowed, path) ==
    \E a \in allowed : Resolve(Join(root, a)) = Resolve(Join(root, path))

\* path in allowed_write_set
IsAllowed(root, allowed, path) == path \in allowed

\* write_file(path, content): "OK", or an "ERROR: ..." string
write_file(root, allowed, path, content, f) ==
    IF ~IsAllowed(root, allowed, path)
    THEN Out("ERROR", "not permitted", "", NoIO, f)
    ELSE
    LET r  == SafeResolve(root, path)
        up == Parent(r.full)
        mk == <<[op |-> "mkdir", node |-> up]>>
        wr == <<[op |-> "mkdir", node |-> up], [op |-> "write", node |-> r.full]>>
    IN  IF ~r.ok THEN Out("ERROR", "outside", "", NoIO, f)
        ELSE IF \E a \in Ancestors(up) : IsFile(f, a)
             THEN Out("ERROR", "other", "", mk, f)
        ELSE LET f1 == MkdirParents(f, up)
             IN  IF IsDir(f1, r.full)
                 THEN Out("ERROR", "other", "", wr, f1)
                 ELSE Out("OK", "", "",  wr,
                          [n \in DOMAIN f1 \cup {r.full} |->
                              IF n = r.full THEN content ELSE f1[n]])

Excluded(n) == \E i \in 1..Len(n) : n[i] \in {"node_modules", ".git"}

\* list_files(directory): the relative paths of the files below it
list_files(root, directory, f) ==
    LET r == SafeResolve(root, directory)
        found == { n \in DOMAIN f : /\ IsInside(r.full, n) /\ n # r.full
                                    /\ f[n] # "DIR" /\ ~Excluded(n) }
        entries == { RelativeTo(root, n) : n \in found }
        io == <<[op |-> "list", node |-> r.full]>>
    IN  IF ~r.ok THEN Out("ERROR", "outside", {}, NoIO, f)
        ELSE IF ~IsDir(f, r.full) THEN Out("ERROR", "not a directory", {}, io, f)
        ELSE IF entries = {} THEN Out("EMPTY", "", {}, io, f)
        ELSE Out("LIST", "", entries, io, f)

----------------------------------------------------------------------------
(* SpecTools: two tool sets made by two make_tools calls, used in any order *)

ToolSets == {1, 2}

RootA      == <<"/", "w", "a">>
RootB      == <<"/", "w", "b">>
RootNested == <<"/", "w", "a", "sub">>

ToolsFs0 ==
    LET dirs  == { <<"/", "w">>, RootA, RootB, RootNested, <<"/", "etc">>,
                   <<"/", "w", "a", "src">>, <<"/", "w", "a", "node_modules">> }
        files == { <<"/", "w", "a", "src", "X.vue">>, <<"/", "w", "a", "a.txt">>,
                   <<"/", "w", "b", "a.txt">>, <<"/", "etc", "passwd">>,
                   <<"/", "w", "a", "node_modules", "pkg.js">> }
    IN  [n \in dirs \cup files |-> IF n \in dirs THEN "DIR" ELSE "c0"]

\* the path strings an agent passes to the tools
ToolPaths ==
    { <<"a.txt">>, <<"src", "X.vue">>, <<".", "src", "X.vue">>,
      <<"..", "evil.txt">>, <<"/", "etc", "passwd">>, <<"x.txt">>,
      <<"sub", "x.txt">>, <<"new", "d", "n.txt">>, <<".">>,
      <<"a.txt", "b.txt">>, <<"..", "a", "a.txt">>, <<"/", "w", "b", "a.txt">> }

\* the allowed_paths lists a fixture may configure
AllowLists ==
    { {},
      { <<"src", "X.vue">> },
      { <<"src", "X.vue">>, <<"..", "evil.txt">>, <<"/", "etc", "passwd">>,
        <<"new", "d", "n.txt">>, <<"x.txt">> },
      { <<"a.txt">>, <<".">>, <<"a.txt", "b.txt">>, <<"..", "a", "a.txt">>,
        <<"x.txt">> } }

\* what tool set t writes
Tag(t) == IF t = 1 THEN "cA" ELSE "cB"

\* A mutant: target_project kept in one module-level variable, so that the
\* second make_tools call rebinds the closures of the first
BoundRootShared(t) == roots[2]

\* the root the closures of tool set t are bound to
BoundRoot(t) == roots[t]

NoRet ==
    [ts |-> 0, tool |-> "none", path |-> <<>>, outside |-> FALSE,
     kind |-> "none", why |-> "", val |-> "", io |-> NoIO]

Ret(t, tool, path, o) ==
    [ts |-> t, tool |-> tool, path |-> path,
     outside |-> ~IsInside(BoundRoot(t), Resolve(Join(BoundRoot(t), path))),
     kind |-> o.kind, why |-> o.why, val |-> o.val, io |-> o.io]

DriverUnused ==
    /\ ag = <<>> /\ memory = <<>> /\ clock = 0

BatchUnused == batch = <<>>

ValidatorsUnused == vcall = <<>>

OrchUnused ==
    /\ family = "none" /\ binding = "none" /\ specJson = <<>> /\ inst = <<>>
    /\ pc = "unused" /\ runNo = 0 /\ loc = <<>> /\ exc = <<>> /\ result = <<>>
    /\ writes = <<>> /\ steps = 0 /\ log = <<>> /\ fsAtStart = <<>>

InitTools ==
    /\ OrchUnused
    /\ DriverUnused
    /\ BatchUnused
    /\ ValidatorsUnused
    /\ fs = ToolsFs0
    /\ roots \in { <<RootA, RootB>>, <<RootA, RootNested>> }
    /\ allow \in [ToolSets -> AllowLists]
    /\ ret = NoRet
    /\ wroteBy = [n \in {} |-> 0]

CallReadFile(t, path) ==
    LET o == read_file(BoundRoot(t), path, fs)
    IN  /\ ret' = Ret(t, "read_file", path, o)
        /\ UNCHANGED <<fs, roots, allow, wroteBy>>
        /\ UNCHANGED orchVars
        /\ UNCHANGED driverVars
        /\ UNCHANGED batch
        /\ UNCHANGED vcall

CallWriteFile(t, path) ==
    LET o == write_file(BoundRoot(t), allow[t], path, Tag(t), fs)
        full == Resolve(Join(BoundRoot(t), path))
    IN  /\ ret' = Ret(t, "write_file", path, o)
        /\ fs' = o.fs
        /\ wroteBy' = IF o.kind = "OK"
                      THEN [n \in DOMAIN wroteBy \cup {full} |->
                               IF n = full THEN t ELSE wroteBy[n]]
                      ELSE wroteBy
        /\ UNCHANGED <<roots, allow>>
        /\ UNCHANGED orchVars
        /\ UNCHANGED driverVars
        /\ UNCHANGED batch
        /\ UNCHANGED vcall

CallListFiles(t, directory) ==
    LET o == list_files(BoundRoot(t), directory, fs)
    IN  /\ ret' = Ret(t, "list_files", directory, o)
        /\ UNCHANGED <<fs, roots, allow, wroteBy>>
        /\ UNCHANGED orchVars
        /\ UNCHANGED driverVars
        /\ UNCHANGED batch
        /\ UNCHANGED vcall

NextTools ==
    \E t \in ToolSets, p \in ToolPaths :
        \/ CallReadFile(t, p)
        \/ CallWriteFile(t, p)
        \/ CallListFiles(t, p)

varsTools == <<fs, roots, allow, ret, wroteBy>>

SpecTools == InitTools /\ [][NextTools]_vars

----------------------------------------------------------------------------
(* The fixture on disk *)

Families == {"refactoring", "creation", "agent"}

FixtureDir    == <<"/", "fx">>
PromptFile    == FixtureDir \o <<"prompt.md">>
SpecFile      == FixtureDir \o <<"validation_spec.json">>
TargetProject == FixtureDir \o <<"target_project">>
TargetFileRel == <<"src", "X.vue">>
TargetFile    == TargetProject \o TargetFileRel
PackageJson   == TargetProject \o <<"package.json">>
UtilRel       == <<"src", "util.ts">>
UtilFile      == TargetProject \o UtilRel
EvilRel       == <<"..", "evil.txt">>

Artifacts == {"prompt", "spec", "project", "target", "package"}

\* the fixture directory with the artifacts of `missing` left out
FixtureFs(missing) ==
    LET dirs  == { FixtureDir }
                 \cup (IF "project" \in missing THEN {}
                       ELSE { TargetProject, TargetProject \o <<"src">> })
        files == (IF "prompt" \in missing THEN {} ELSE { PromptFile })
                 \cup (IF "spec" \in missing THEN {} ELSE { SpecFile })
                 \cup (IF "project" \in missing THEN {}
                       ELSE { UtilFile }
                            \cup (IF "target" \in missing THEN {} ELSE { TargetFile })
                            \cup (IF "package" \in missing THEN {} ELSE { PackageJson }))
    IN  [n \in dirs \cup files |->
            IF n \in dirs THEN "DIR"
            ELSE IF n = TargetFile THEN "orig"
            ELSE IF n = PromptFile THEN "task"
            ELSE "c0"]

\* the scoring weights of a fixture, in hundredths
WeightSets ==
    { [compilation |-> 50, pattern_match |-> 40, naming |-> 10],
      [compilation |-> 60, pattern_match |-> 60, naming |-> 20] }

MaxRuns  == 2
MaxSteps == 2
DefaultMaxSteps == 5

\* the allowed_write_paths a fixture may configure
SpecAllowLists ==
    { { TargetFileRel }, { TargetFileRel, UtilRel }, { UtilRel, EvilRel } }

SpecChoices(k) ==
    IF k = "agent"
    THEN { [scoring |-> w, has_max_steps |-> TRUE, max_steps |-> MaxSteps,
            has_allowed |-> TRUE, allowed_write_paths |-> a] :
              w \in WeightSets, a \in SpecAllowLists }
         \cup
         { [scoring |-> w, has_max_steps |-> TRUE, max_steps |-> MaxSteps,
            has_allowed |-> FALSE, allowed_write_paths |-> {}] : w \in WeightSets }
    ELSE { [scoring |-> w, has_max_steps |-> FALSE, max_steps |-> 0,
            has_allowed |-> FALSE, allowed_write_paths |-> {}] : w \in WeightSets }

\* the code a model response or an agent may produce
Codes == {"codeA", "codeB"}

\* structural scores, in tenths: the AST-based and the regex-based validator
PatternScores(k) == IF k = "creation" THEN {0, 60, 100} ELSE {0, 66, 100}

NamingScores == {0, 1}

----------------------------------------------------------------------------
(* The orchestrators: RefactoringTest, CreationTest, AgentTest *)

NoInst == [made |-> FALSE]
NoExc  == [by |-> "none", type |-> "none", names |-> "none"]
NoV    == [called |-> FALSE, raised |-> FALSE, score |-> 0]
EmptyLoc ==
    [prompt |-> <<>>, output_code |-> "", produced |-> FALSE,
     compiled |-> FALSE, compiles |-> FALSE,
     ast |-> NoV, pattern_score |-> 0, naming |-> NoV, naming_fraction |-> 0,
     errors |-> <<>>,
     agent_steps |-> 0, succeeded |-> FALSE, iterations |-> 0]
NoResult == [returned |-> FALSE]

\* Path.write_text: the file is created or overwritten
WriteText(f, node, content) ==
    [n \in DOMAIN f \cup {node} |-> IF n = node THEN content ELSE f[n]]

\* A mutant: the target file is looked for before the other artifacts
FirstMissingTargetFirst(f) ==
    IF TargetFile \notin DOMAIN f THEN "target_file"
    ELSE IF PromptFile \notin DOMAIN f THEN "prompt.md"
    ELSE IF SpecFile \notin DOMAIN f THEN "validation_spec.json"
    ELSE IF TargetProject \notin DOMAIN f THEN "target_project"
    ELSE "none"

\* __init__: the exists() checks, in the order of the code
FirstMissing(f) ==
    IF PromptFile \notin DOMAIN f THEN "prompt.md"
    ELSE IF SpecFile \notin DOMAIN f THEN "validation_spec.json"
    ELSE IF TargetProject \notin DOMAIN f THEN "target_project"
    ELSE IF TargetFile \notin DOMAIN f THEN "target_file"
    ELSE "none"

\* __init__: self.max_steps and self.allowed_paths
MaxStepsOf(sp) == IF sp.has_max_steps THEN sp.max_steps ELSE DefaultMaxSteps
AllowedPathsOf(sp) ==
    IF sp.has_allowed THEN sp.allowed_write_paths ELSE { TargetFileRel }

Construct ==
    /\ pc = "new"
    /\ LET m == FirstMissing(fs)
       IN  IF m # "none"
           THEN /\ pc' = "ctor_failed"
                /\ exc' = [by |-> "construct", type |-> "FileNotFoundError", names |-> m]
                /\ inst' = NoInst
           ELSE /\ pc' = "idle"
                /\ exc' = NoExc
                /\ inst' = [made |-> TRUE,
                            prompt |-> fs[PromptFile],
                            validation_spec |-> specJson,
                            original_code |-> fs[TargetFile],
                            max_steps |-> MaxStepsOf(specJson),
                            allowed_paths |-> AllowedPathsOf(specJson)]
    /\ UNCHANGED <<fs, family, binding, specJson, runNo, loc, result, writes, steps,
                   log, fsAtStart>>
    /\ UNCHANGED toolVars
    /\ UNCHANGED driverVars
    /\ UNCHANGED batch
    /\ UNCHANGED vcall

\* A mutant: run() without its finally clause
FinallyNoRestore(f) == f

\* finally: self.target_file.write_text(self.original_code)
Finally(f) == WriteText(f, TargetFile, inst.original_code)

\* an exception leaves run(): the finally clause runs, then the caller sees it
Raises(by, type, f) ==
    /\ pc' = "raised"
    /\ exc' = [by |-> by, type |-> type, names |-> "none"]
    /\ fs' = Finally(f)
    /\ writes' = Append(writes, "restore_after")
    /\ result' = NoResult

\* A mutant: the runs are numbered from 0
NextRunNumberFromZero(i) == i

\* the caller's run_number of the next run: i + 1 after i runs
NextRunNumber(i) == i + 1

\* run(), step 1: the target file is overwritten with the snapshot
RestoreBefore ==
    /\ pc \in {"idle", "returned", "raised"}
    /\ runNo < MaxRuns
    /\ runNo' = NextRunNumber(runNo)
    /\ fsAtStart' = fs
    /\ fs' = WriteText(fs, TargetFile, inst.original_code)
    /\ writes' = <<"restore_before">>
    /\ loc' = EmptyLoc
    /\ exc' = NoExc
    /\ result' = NoResult
    /\ steps' = 0
    /\ log' = <<>>
    /\ pc' = "restored"
    /\ UNCHANGED <<family, binding, specJson, inst>>
    /\ UNCHANGED toolVars
    /\ UNCHANGED driverVars
    /\ UNCHANGED batch
    /\ UNCHANGED vcall

\* the prompt sent: RefactoringTest substitutes {{original_code}}, CreationTest
\* sends the template as it is
RenderPrompt ==
    IF family = "refactoring" THEN <<inst.prompt, inst.original_code>>
    ELSE <<inst.prompt>>

\* A mutant: run() keeps the code it extracted as the new snapshot
CallModelAdoptsOutput ==
    /\ pc = "restored" /\ family # "agent"
    /\ \E code \in Codes :
          /\ loc' = [loc EXCEPT !.prompt = RenderPrompt, !.output_code = code]
          /\ inst' = [inst EXCEPT !.original_code = code]
    /\ pc' = "extracted"
    /\ UNCHANGED <<fs, exc, result, writes>>
    /\ UNCHANGED <<family, binding, specJson, runNo, steps, log, fsAtStart>>
    /\ UNCHANGED toolVars
    /\ UNCHANGED driverVars
    /\ UNCHANGED batch
    /\ UNCHANGED vcall

\* prompt-only run(): ollama_client.chat and _extract_vue_code
CallModel ==
    /\ pc = "restored" /\ family # "agent"
    /\ \/ \E code \in Codes :
             /\ loc' = [loc EXCEPT !.prompt = RenderPrompt, !.output_code = code]
             /\ pc' = "extracted"
             /\ UNCHANGED <<fs, exc, result, writes>>
       \/ Raises("model", "OllamaError", fs) /\ UNCHANGED loc
    /\ UNCHANGED <<family, binding, specJson, inst, runNo, steps, log, fsAtStart>>
    /\ UNCHANGED toolVars
    /\ UNCHANGED driverVars
    /\ UNCHANGED batch
    /\ UNCHANGED vcall

\* A mutant: the extracted code is validated without being written
WriteArtifactSkipped ==
    /\ pc = "extracted"
    /\ loc' = [loc EXCEPT !.produced = TRUE]
    /\ pc' = "written"
    /\ UNCHANGED <<fs, family, binding, specJson, inst, runNo, exc, result, writes,
                   steps, log, fsAtStart>>
    /\ UNCHANGED toolVars
    /\ UNCHANGED driverVars
    /\ UNCHANGED batch
    /\ UNCHANGED vcall

\* prompt-only run(): self.target_file.write_text(output_code)
WriteArtifact ==
    /\ pc = "extracted"
    /\ fs' = WriteText(fs, TargetFile, loc.output_code)
    /\ writes' = Append(writes, "artifact")
    /\ loc' = [loc EXCEPT !.produced = TRUE]
    /\ pc' = "written"
    /\ UNCHANGED <<family, binding, specJson, inst, runNo, exc, result, steps, log,
                   fsAtStart>>
    /\ UNCHANGED toolVars
    /\ UNCHANGED driverVars
    /\ UNCHANGED batch
    /\ UNCHANGED vcall

\* the drivers the name run_agent is bound to: the one of agent_client.py, whose
\* parameter is max_iterations, and the one the runner's tests patch in, which
\* takes max_steps and returns a result with a steps field
Bindings == {"agent_client", "patched"}

\* run_agent(model=, task=, tools=, max_steps=) against the bound signature
AcceptsMaxSteps(b) == b = "patched"

\* agentic run(): make_tools and the call of run_agent
StartAgent ==
    /\ pc = "restored" /\ family = "agent"
    /\ IF AcceptsMaxSteps(binding)
       THEN /\ pc' = "agent_loop"
            /\ loc' = [loc EXCEPT !.prompt = <<inst.prompt>>]
            /\ UNCHANGED <<fs, exc, result, writes>>
       ELSE Raises("agent", "TypeError", fs) /\ UNCHANGED loc
    /\ UNCHANGED <<family, binding, specJson, inst, runNo, steps, log, fsAtStart>>
    /\ UNCHANGED toolVars
    /\ UNCHANGED driverVars
    /\ UNCHANGED batch
    /\ UNCHANGED vcall

\* the paths the agent passes to write_file
AgentPaths == { TargetFileRel, UtilRel, EvilRel }

\* one LLM turn of the agent loop that calls write_file
AgentWrite(path, content) ==
    /\ pc = "agent_loop" /\ steps < inst.max_steps
    /\ LET o == write_file(TargetProject, inst.allowed_paths, path, content, fs)
       IN  /\ fs' = o.fs
           /\ writes' = IF o.kind = "OK" /\ Resolve(Join(TargetProject, path)) = TargetFile
                        THEN Append(writes, "artifact") ELSE writes
           /\ loc' = IF o.kind = "OK" THEN [loc EXCEPT !.produced = TRUE] ELSE loc
    /\ steps' = steps + 1
    /\ log' = Append(log, [step |-> steps + 1, tool |-> "write_file"])
    /\ UNCHANGED <<family, binding, specJson, inst, pc, runNo, exc, result, fsAtStart>>
    /\ UNCHANGED toolVars
    /\ UNCHANGED driverVars
    /\ UNCHANGED batch
    /\ UNCHANGED vcall

\* one LLM turn of the agent loop that calls a tool that writes nothing
AgentCall(tool) ==
    /\ pc = "agent_loop" /\ steps < inst.max_steps
    /\ steps' = steps + 1
    /\ log' = Append(log, [step |-> steps + 1, tool |-> tool])
    /\ UNCHANGED <<fs, family, binding, specJson, inst, pc, runNo, loc, exc, result,
                   writes, fsAtStart>>
    /\ UNCHANGED toolVars
    /\ UNCHANGED driverVars
    /\ UNCHANGED batch
    /\ UNCHANGED vcall

CountTool(l, tool) == Cardinality({ i \in 1..Len(l) : l[i].tool = tool })

\* agentic run(): run_agent returns; errors.extend, iterations, the read of the
\* final state of the target file
AgentReturn ==
    /\ pc = "agent_loop"
    /\ \E ok \in BOOLEAN :
          /\ (~ok) => steps = inst.max_steps
          /\ loc' = [loc EXCEPT
                       !.agent_steps = steps,
                       !.succeeded = ok,
                       !.iterations = CountTool(log, "run_compilation"),
                       !.output_code = IF IsFile(fs, TargetFile) THEN fs[TargetFile] ELSE "",
                       !.errors = IF IsFile(fs, TargetFile) THEN @
                                  ELSE Append(@, "Could not read target file")]
    /\ pc' = "written"
    /\ UNCHANGED <<fs, family, binding, specJson, inst, runNo, exc, result, writes,
                   steps, log, fsAtStart>>
    /\ UNCHANGED toolVars
    /\ UNCHANGED driverVars
    /\ UNCHANGED batch
    /\ UNCHANGED vcall

\* agentic run(): the call of run_agent raises
AgentRaise ==
    /\ pc = "agent_loop"
    /\ Raises("agent", "RuntimeError", fs)
    /\ UNCHANGED <<family, binding, specJson, inst, runNo, loc, steps, log, fsAtStart>>
    /\ UNCHANGED toolVars
    /\ UNCHANGED driverVars
    /\ UNCHANGED batch
    /\ UNCHANGED vcall

\* validate_compilation: FileNotFoundError without the project or package.json,
\* else the outcome of the compiler run (a timeout is success = False)
ValidateCompilation ==
    /\ pc = "written"
    /\ IF TargetProject \notin DOMAIN fs \/ PackageJson \notin DOMAIN fs
       THEN Raises("compilation", "FileNotFoundError", fs) /\ UNCHANGED loc
       ELSE /\ \E ok \in BOOLEAN : loc' = [loc EXCEPT !.compiled = TRUE, !.compiles = ok]
            /\ pc' = "compiled"
            /\ UNCHANGED <<fs, exc, result, writes>>
    /\ UNCHANGED <<family, binding, specJson, inst, runNo, steps, log, fsAtStart>>
    /\ UNCHANGED toolVars
    /\ UNCHANGED driverVars
    /\ UNCHANGED batch
    /\ UNCHANGED vcall

\* what a validator call ends in: a score, or an exception
Outcomes(scores) ==
    { [called |-> TRUE, raised |-> TRUE, score |-> 0] }
    \cup { [called |-> TRUE, raised |-> FALSE, score |-> s] : s \in scores }

\* A mutant: the call of the validator without try/except
GuardNone(v, msg) ==
    [propagate |-> v.raised, score |-> v.score, errors |-> <<>>]

\* try: validator(...) except Exception as e: errors.append(...); score = 0.0
Guard(v, msg) ==
    [propagate |-> FALSE,
     score  |-> IF v.raised THEN 0 ELSE v.score,
     errors |-> IF v.raised THEN <<msg>> ELSE <<>>]

\* A mutant of AstGuard
AstGuardNone(v) == GuardNone(v, "AST validation error")

AstGuard(v) == Guard(v, "AST validation error")

\* A mutant of NamingGuard
NamingGuardNone(v) == GuardNone(v, "Naming validation error")

NamingGuard(v) == Guard(v, "Naming validation error")

\* run(): validate_ast_structure(output_code, required_patterns), guarded
ValidateAst ==
    /\ pc = "compiled"
    /\ \E v \in Outcomes(PatternScores(family)) :
          LET g == AstGuard(v)
          IN  IF g.propagate
              THEN Raises("ast", "Exception", fs) /\ UNCHANGED loc
              ELSE /\ loc' = [loc EXCEPT !.ast = v, !.pattern_score = g.score,
                                         !.errors = @ \o g.errors]
                   /\ pc' = "ast_done"
                   /\ UNCHANGED <<fs, exc, result, writes>>
    /\ UNCHANGED <<family, binding, specJson, inst, runNo, steps, log, fsAtStart>>
    /\ UNCHANGED toolVars
    /\ UNCHANGED driverVars
    /\ UNCHANGED batch
    /\ UNCHANGED vcall

\* run(): validate_naming(output_code, naming_conventions), guarded
ValidateNaming ==
    /\ pc = "ast_done"
    /\ \E v \in Outcomes(NamingScores) :
          LET g == NamingGuard(v)
          IN  IF g.propagate
              THEN Raises("naming", "Exception", fs) /\ UNCHANGED loc
              ELSE /\ loc' = [loc EXCEPT !.naming = v, !.naming_fraction = g.score,
                                         !.errors = @ \o g.errors]
                   /\ pc' = "naming_done"
                   /\ UNCHANGED <<fs, exc, result, writes>>
    /\ UNCHANGED <<family, binding, specJson, inst, runNo, steps, log, fsAtStart>>
    /\ UNCHANGED toolVars
    /\ UNCHANGED driverVars
    /\ UNCHANGED batch
    /\ UNCHANGED vcall

\* A mutant: the naming score taken on its 0-10 scale
FinalScoreScaledNaming(compiles, pattern, naming, w) ==
    (IF compiles THEN 1 ELSE 0) * w.compilation * 100
        + pattern * w.pattern_match
        + (naming * 10) * w.naming * 100

\* final_score, in thousandths: pattern is in tenths, the weights in hundredths
FinalScore(compiles, pattern, naming, w) ==
    (IF compiles THEN 1 ELSE 0) * w.compilation * 100
        + pattern * w.pattern_match
        + naming * w.naming * 100

\* run(): the weights, the final score, the result; then the finally clause
Score ==
    /\ pc = "naming_done"
    /\ LET weights == inst.validation_spec.scoring
       IN  result' =
             [returned |-> TRUE,
              run_number |-> runNo,
              compiles |-> loc.compiles,
              pattern_score |-> loc.pattern_score,
              naming_score |-> loc.naming_fraction * 10,
              final_score |-> FinalScore(loc.compiles, loc.pattern_score,
                                         loc.naming_fraction, weights),
              scoring_weights |-> weights,
              output_code |-> loc.output_code,
              errors |-> loc.errors,
              steps |-> loc.agent_steps,
              max_steps |-> IF family = "agent" THEN inst.max_steps ELSE 0,
              iterations |-> loc.iterations,
              succeeded |-> loc.succeeded,
              tool_call_log |-> log]
    /\ fs' = Finally(fs)
    /\ writes' = Append(writes, "restore_after")
    /\ pc' = "returned"
    /\ UNCHANGED <<family, binding, specJson, inst, runNo, loc, exc, steps, log, fsAtStart>>
    /\ UNCHANGED toolVars
    /\ UNCHANGED driverVars
    /\ UNCHANGED batch
    /\ UNCHANGED vcall

ToolsUnused ==
    /\ roots = <<>> /\ allow = <<>> /\ ret = NoRet /\ wroteBy = <<>>

Init ==
    /\ ToolsUnused
    /\ DriverUnused
    /\ BatchUnused
    /\ ValidatorsUnused
    /\ family \in Families
    /\ binding \in (IF family = "agent" THEN Bindings ELSE {"none"})
    /\ specJson \in SpecChoices(family)
    /\ fs \in { FixtureFs(m) : m \in SUBSET Artifacts }
    /\ inst = NoInst
    /\ pc = "new"
    /\ runNo = 0
    /\ loc = EmptyLoc
    /\ exc = NoExc
    /\ result = NoResult
    /\ writes = <<>>
    /\ steps = 0
    /\ log = <<>>
    /\ fsAtStart = fs

Next ==
    \/ Construct
    \/ RestoreBefore
    \/ CallModel
    \/ WriteArtifact
    \/ StartAgent
    \/ \E p \in AgentPaths, c \in Codes : AgentWrite(p, c)
    \/ \E tool \in {"read_file", "list_files", "run_compilation"} : AgentCall(tool)
    \/ AgentReturn
    \/ AgentRaise
    \/ ValidateCompilation
    \/ ValidateAst
    \/ ValidateNaming
    \/ Score

Spec == Init /\ [][Next]_vars

----------------------------------------------------------------------------
(* The agent loop driver: run_agent of agent/common/agent_client.py *)

MaxIterations == 2
SummaryLimit  == 200

\* what a step of agent.memory.steps can hold: its tool calls, the length of
\* its observations, and whether reading it raises
ToolCallLists == { <<>>, <<"read_file">>, <<"write_file", "run_compilation">> }
ObsLens       == { 0, SummaryLimit, SummaryLimit + 1 }
MemorySteps   == [tool_calls : ToolCallLists, obs : ObsLens, malformed : BOOLEAN]

RunStates  == {"success", "max_steps_error"}
RunOutputs == {"None", "", "Done"}
\* token_usage of the RunResult: missing (reading it raises), or its
\* output_tokens, where None counts as 0
TokenUsages ==
    { [has |-> FALSE, output_tokens |-> 0],
      [has |-> TRUE,  output_tokens |-> 0],
      [has |-> TRUE,  output_tokens |-> 150] }

NoAgentResult == [returned |-> FALSE]

\* the locals of run_agent before the call (lines 81-86 set the six of them)
AgentLocals(n) ==
    [pc |-> "called", max_iterations |-> n, max_steps |-> 0,
     tool_call_log |-> <<>>, errors |-> <<>>, succeeded |-> FALSE,
     final_output |-> "", output_tokens |-> 0, start_time |-> 0,
     duration_sec |-> 0, tokens_per_sec |-> <<0, 1>>, step_count |-> 0,
     caught |-> FALSE, loop_steps |-> 0, ended_at |-> 0, outcome |-> NoAgentResult,
     extract_raised |-> FALSE,
     result |-> NoAgentResult]

InitAgent ==
    /\ ToolsUnused
    /\ OrchUnused
    /\ BatchUnused
    /\ ValidatorsUnused
    /\ fs = <<>>
    /\ ag \in { AgentLocals(n) : n \in 1..MaxIterations }
    /\ memory = <<>>
    /\ clock = 0

\* A mutant: the agent is made with a ceiling one above max_iterations
AgentMaxStepsAbove(max_iterations) == max_iterations + 1

\* lines 75-79: ToolCallingAgent(max_steps=max_iterations)
AgentMaxSteps(max_iterations) == max_iterations

\* lines 67-86: the model and the agent are constructed outside the try; an
\* exception of a constructor leaves run_agent
RunAgentStart ==
    /\ ag.pc = "called"
    /\ \/ ag' = [ag EXCEPT !.pc = "loop", !.max_steps = AgentMaxSteps(ag.max_iterations),
                           !.start_time = clock]
       \/ ag' = [ag EXCEPT !.pc = "propagated"]
    /\ UNCHANGED <<memory, clock>>

\* agent.run: one LLM turn, which appends a step to agent.memory.steps
LoopStep(step) ==
    /\ ag.pc = "loop"
    /\ Len(memory) < ag.max_steps
    /\ memory' = Append(memory, step)
    /\ clock' = clock + 1
    /\ ag' = [ag EXCEPT !.loop_steps = @ + 1]

\* line 100 and line 102
Elapsed(start, now) == now - start

TokensPerSec(output_tokens, duration_sec) ==
    IF duration_sec > 0 /\ output_tokens > 0
    THEN <<output_tokens, duration_sec>> ELSE <<0, 1>>

AfterLoop(a) ==
    LET d == Elapsed(a.start_time, clock)
    IN  [a EXCEPT !.pc = "extract", !.duration_sec = d, !.ended_at = clock,
                  !.tokens_per_sec = TokensPerSec(a.output_tokens, d)]

\* lines 96-98
OnRunErrorKeepsFlag(a) ==
    [a EXCEPT !.errors = Append(@, "Agent run error"), !.caught = TRUE]

OnRunError(a) ==
    [a EXCEPT !.errors = Append(@, "Agent run error"), !.succeeded = FALSE,
              !.caught = TRUE]

\* lines 92-95
OutputTokens(usage) ==
    IF usage.has THEN usage.output_tokens ELSE 0

\* lines 89-95 and 99-102: agent.run returns a RunResult.  bad is the line at
\* which reading the RunResult raises, if it does.
LoopReturn(state, output, usage, bad) ==
    /\ ag.pc = "loop"
    /\ state = "max_steps_error" => Len(memory) = ag.max_steps
    /\ LET a1 == [ag EXCEPT !.succeeded = (state = "success")]
           a2 == [a1 EXCEPT !.final_output =
                               IF output \in {"None", ""} THEN "" ELSE output]
           a3 == [a2 EXCEPT !.output_tokens = OutputTokens(usage)]
           a  == CASE bad = "state"  -> OnRunError(ag)
                   [] bad = "output" -> OnRunError(a1)
                   [] OTHER          -> a3
       IN  ag' = AfterLoop([a EXCEPT !.outcome =
                   [returned |-> TRUE, succeeded |-> a.succeeded,
                    final_output |-> a.final_output,
                    output_tokens |-> a.output_tokens]])
    /\ UNCHANGED <<memory, clock>>

\* lines 89 and 96-102: agent.run raises
LoopRaise ==
    /\ ag.pc = "loop"
    /\ LET a == OnRunError(ag)
       IN  ag' = AfterLoop([a EXCEPT !.outcome =
                   [returned |-> TRUE, succeeded |-> a.succeeded,
                    final_output |-> a.final_output,
                    output_tokens |-> a.output_tokens]])
    /\ UNCHANGED <<memory, clock>>

\* lines 110-114
ResultSummary(obs) == IF obs > SummaryLimit THEN SummaryLimit + 3 ELSE obs

\* lines 115-121
RECURSIVE LogCalls(_, _, _, _)
LogCalls(l, idx, step, k) ==
    IF k > Len(step.tool_calls) THEN l
    ELSE LogCalls(Append(l, [step |-> idx, tool |-> step.tool_calls[k],
                             result_summary |-> ResultSummary(step.obs)]),
                  idx, step, k + 1)

\* lines 106-121: the loop over the steps, from step i on
RECURSIVE ExtractFrom(_, _, _)
ExtractFrom(stepsOfMemory, i, acc) ==
    IF i > Len(stepsOfMemory) THEN acc
    ELSE IF stepsOfMemory[i].malformed
         THEN [acc EXCEPT !.step_count = @ + 1, !.raised = TRUE]
         ELSE ExtractFrom(stepsOfMemory, i + 1,
                 [acc EXCEPT !.step_count = @ + 1,
                             !.log = LogCalls(@, i, stepsOfMemory[i], 1)])

\* lines 122-123
OnExtractErrorSilent(a) == a

OnExtractError(a) == [a EXCEPT !.errors = Append(@, "Log extraction error")]

\* lines 104-133: the step log is extracted and the result returned
ExtractLog(unreadable) ==
    /\ ag.pc = "extract"
    /\ clock' = clock + 1
    /\ LET acc0 == [log |-> ag.tool_call_log, step_count |-> 0, raised |-> FALSE]
           acc  == IF unreadable THEN [acc0 EXCEPT !.raised = TRUE]
                   ELSE ExtractFrom(memory, 1, acc0)
           a1   == [ag EXCEPT !.tool_call_log = acc.log, !.step_count = acc.step_count,
                              !.extract_raised = acc.raised]
           a    == IF acc.raised THEN OnExtractError(a1) ELSE a1
       IN  ag' = [a EXCEPT !.pc = "returned",
                    !.result = [returned |-> TRUE,
                                succeeded |-> a.succeeded,
                                iterations |-> a.step_count,
                                final_output |-> a.final_output,
                                tool_call_log |-> a.tool_call_log,
                                duration_sec |-> a.duration_sec,
                                tokens_per_sec |-> a.tokens_per_sec,
                                errors |-> a.errors]]
    /\ UNCHANGED memory

NextAgent ==
    \/ RunAgentStart /\ UNCHANGED <<fs, toolVars, orchVars, batch, vcall>>
    \/ (\E step \in MemorySteps : LoopStep(step)) /\ UNCHANGED <<fs, toolVars, orchVars, batch, vcall>>
    \/ (\E state \in RunStates, output \in RunOutputs, usage \in TokenUsages,
           bad \in {"no", "state", "output"} : LoopReturn(state, output, usage, bad))
          /\ UNCHANGED <<fs, toolVars, orchVars, batch, vcall>>
    \/ LoopRaise /\ UNCHANGED <<fs, toolVars, orchVars, batch, vcall>>
    \/ (\E unreadable \in BOOLEAN : ExtractLog(unreadable))
          /\ UNCHANGED <<fs, toolVars, orchVars, batch, vcall>>

SpecAgent == InitAgent /\ [][NextAgent]_vars

----------------------------------------------------------------------------
(* The batch driver: main and run_fixture of run_test.py *)

MaxFixtures == 2

\* _RUNNER_MAP: fixture directory name -> the family of its runner
RunnerMap ==
    [n \in {"simple-component", "veevalidate-zod-form"} |->
        IF n = "simple-component" THEN "refactoring" ELSE "creation"]

\* the fixture directories discovery may find; "unlisted" has no runner
FixtureNames == DOMAIN RunnerMap \cup {"unlisted"}

Injective(q) == \A i \in 1..Len(q) : \A j \in 1..Len(q) : q[i] = q[j] => i = j

\* the lists of fixtures main may work on: directories, hence distinct names
Batches ==
    { q \in UNION { [1..n -> FixtureNames] : n \in 1..MaxFixtures } : Injective(q) }

\* what a discovered fixture may lack (discovery requires validation_spec.json)
FixtureStates == { {}, {"prompt"}, {"target"}, {"package"} }

BatchLocals(n) ==
    [pc |-> "main", runs |-> n, started |-> FALSE, fixtures |-> <<>>, index |-> 0,
     had_errors |-> FALSE, results |-> <<>>, all_results |-> <<>>,
     saved |-> <<>>, loads |-> <<>>, exit |-> -1, cause |-> "none"]

InitBatch ==
    /\ ToolsUnused
    /\ DriverUnused
    /\ ValidatorsUnused
    /\ OrchUnused
    /\ fs = <<>>
    /\ batch \in { BatchLocals(n) : n \in 0..MaxRuns }

\* A mutant: main returns 0 whatever happened
ExitStatusZero(had_errors) == 0

\* main, line 341
ExitStatus(had_errors) == IF had_errors THEN 1 ELSE 0

\* main, lines 277-311: the fixtures to run; without any, main returns 1
Discover ==
    /\ batch.pc = "main"
    /\ \/ \E q \in Batches :
             batch' = [batch EXCEPT !.pc = "loop", !.started = TRUE,
                                    !.fixtures = q, !.index = 1]
       \/ batch' = [batch EXCEPT !.pc = "returned", !.exit = 1]
    /\ UNCHANGED <<fs, toolVars, orchVars, driverVars, vcall>>

\* the name of the fixture main is at
Current == batch.fixtures[batch.index]

\* main, lines 321-324: no runner is registered
OnNoRunner(b) == [b EXCEPT !.had_errors = TRUE, !.index = @ + 1]

\* main, lines 316-326, and run_fixture, line 212: the next fixture of the
\* list, its runner module and its runner class
TakeFixture ==
    /\ batch.pc = "loop"
    /\ batch.index <= Len(batch.fixtures)
    /\ IF Current \notin DOMAIN RunnerMap
       THEN /\ batch' = [OnNoRunner(batch) EXCEPT
                           !.loads = Append(@, [name |-> Current, registered |-> FALSE,
                                                missing |-> {}])]
            /\ UNCHANGED <<fs, orchVars>>
       ELSE \E m \in FixtureStates : \E sp \in SpecChoices(RunnerMap[Current]) :
            /\ batch' = [batch EXCEPT
                           !.pc = "fixture", !.results = <<>>,
                           !.loads = Append(@, [name |-> Current, registered |-> TRUE,
                                                missing |-> m])]
            /\ fs' = FixtureFs(m)
            /\ fsAtStart' = FixtureFs(m)
            /\ family' = RunnerMap[Current]
            /\ binding' = "none"
            /\ specJson' = sp
            /\ inst' = NoInst
            /\ pc' = "new"
            /\ runNo' = 0
            /\ loc' = EmptyLoc
            /\ exc' = NoExc
            /\ result' = NoResult
            /\ writes' = <<>>
            /\ steps' = 0
            /\ log' = <<>>
    /\ UNCHANGED <<toolVars, driverVars, vcall>>

\* run_fixture, lines 213-214: runner_class(model=, fixture_path=)
LoadFixture ==
    /\ batch.pc = "fixture"
    /\ Construct

\* run_fixture, lines 215-218, and main, lines 328-330: the constructor raised
\* FileNotFoundError
SkipFixture ==
    /\ batch.pc = "fixture" /\ pc = "ctor_failed"
    /\ batch' = [batch EXCEPT !.pc = "loop", !.had_errors = TRUE, !.index = @ + 1]
    /\ UNCHANGED <<fs, toolVars, orchVars, driverVars, vcall>>

\* run_fixture, lines 221-223: test.run(run_number=i + 1) is called
StartRun ==
    /\ batch.pc = "fixture"
    /\ pc \in {"idle", "returned"}
    /\ runNo < batch.runs
    /\ Len(batch.results) = runNo
    /\ RestoreBefore

\* the steps of run() between its first and its last write
RunStep ==
    /\ batch.pc = "fixture"
    /\ \/ CallModel
       \/ WriteArtifact
       \/ ValidateCompilation
       \/ ValidateAst
       \/ ValidateNaming
       \/ Score

\* run_fixture, lines 224-225: results.append(result)
CollectResult ==
    /\ batch.pc = "fixture" /\ pc = "returned"
    /\ Len(batch.results) < runNo
    /\ batch' = [batch EXCEPT !.results =
                    Append(@, [fixture |-> Current, run_number |-> result.run_number])]
    /\ UNCHANGED <<fs, toolVars, orchVars, driverVars, vcall>>

\* run_fixture, line 227, and main, lines 332-336: the results of the fixture
\* are saved; save_results reads results[0]
SaveFixture ==
    /\ batch.pc = "fixture"
    /\ pc \in {"idle", "returned"}
    /\ runNo >= batch.runs
    /\ Len(batch.results) = runNo
    /\ IF batch.results = <<>>
       THEN batch' = [batch EXCEPT !.pc = "raised", !.cause = "IndexError"]
       ELSE batch' = [batch EXCEPT !.pc = "loop", !.index = @ + 1,
                                   !.saved = Append(@, Current),
                                   !.all_results = @ \o batch.results]
    /\ UNCHANGED <<fs, toolVars, orchVars, driverVars, vcall>>

\* an exception of run() leaves run_fixture and main
RunAborts ==
    /\ batch.pc = "fixture" /\ pc = "raised"
    /\ batch' = [batch EXCEPT !.pc = "raised", !.cause = exc.type]
    /\ UNCHANGED <<fs, toolVars, orchVars, driverVars, vcall>>

\* main, lines 338-341
MainReturn ==
    /\ batch.pc = "loop"
    /\ batch.index > Len(batch.fixtures)
    /\ batch' = [batch EXCEPT !.pc = "returned", !.exit = ExitStatus(batch.had_errors)]
    /\ UNCHANGED <<fs, toolVars, orchVars, driverVars, vcall>>

NextBatch ==
    \/ Discover
    \/ TakeFixture
    \/ LoadFixture
    \/ SkipFixture
    \/ StartRun
    \/ RunStep
    \/ CollectResult
    \/ SaveFixture
    \/ RunAborts
    \/ MainReturn

SpecBatch == InitBatch /\ [][NextBatch]_vars

----------------------------------------------------------------------------
(* The validators: validate_ast_structure and validate_naming *)
----------------------------------------------------------------------------
\* A score is kept in hundredths of a point while it is summed (3.3 is 330)
\* and in tenths of a point once round(score, 1) has been applied (3.3 is 33).

\* round(score, 1) of a sum held in hundredths: the nearest tenth
Round1(h) == (h + 5) \div 10

\* no validator was called yet
NoOut == [done |-> FALSE]

\* the modules that hold the AST-based validate_ast_structure
AstVariants == {"agent/ts_bugfix", "refactoring/typed_emits_composable",
                "validator"}

\* the code argument of the AST-based validator: None, "" or a component
AstCodes == {"None", "", "component"}

\* the keys of expected_structures: the four the validator knows and one
\* that it does not
StructureKeys == {"interfaces", "type_annotations", "script_lang", "imports",
                  "other"}

\* expected_structures: the keys present (none: {} or None) and whether the
\* value of "imports" is truthy
AstExpected ==
    { [keys |-> k, imports_value |-> v] :
        k \in SUBSET StructureKeys, v \in BOOLEAN }

\* what the parser process prints on stdout when it exits with status 0 and
\* prints the JSON object: the four facts (.get(..., False) each)
ParserReports ==
    [has_script_lang_ts : BOOLEAN, has_interfaces : BOOLEAN,
     has_type_annotations : BOOLEAN, has_imports : BOOLEAN]

NoReport ==
    [has_script_lang_ts |-> FALSE, has_interfaces |-> FALSE,
     has_type_annotations |-> FALSE, has_imports |-> FALSE]

\* how subprocess.run of the parser ends: a report, a non-zero exit status,
\* an stdout that is no JSON, no node executable, or the 10 s timeout
ParserOutcomes ==
    { [kind |-> "report", report |-> r] : r \in ParserReports }
    \cup { [kind |-> k, report |-> NoReport] :
             k \in {"nonzero", "not_json", "no_node", "timeout"} }

\* the keys appended to missing by the AST-based validator
AstMissing(expected, r) ==
    {k \in expected.keys :
        \/ k = "interfaces" /\ ~r.has_interfaces
        \/ k = "type_annotations" /\ ~r.has_type_annotations
        \/ k = "script_lang" /\ ~r.has_script_lang_ts
        \/ k = "imports" /\ expected.imports_value /\ ~r.has_imports}

\* the score of the AST-based validator, in tenths: 3.3, 3.3 and 3.4 for the
\* facts the parser reports, whatever expected_structures holds
AstScore(expected, r) ==
    Round1((IF r.has_interfaces THEN 330 ELSE 0)
           + (IF r.has_type_annotations THEN 330 ELSE 0)
           + (IF r.has_script_lang_ts THEN 340 ELSE 0))

\* the exception that leaves the AST-based validator: Exception for a
\* non-zero exit status or an stdout that is no JSON, FileNotFoundError when
\* node is missing; subprocess.TimeoutExpired is caught nowhere
ParserException(outcome) ==
    CASE outcome.kind \in {"nonzero", "not_json"} -> "Exception"
      [] outcome.kind = "no_node" -> "FileNotFoundError"
      [] outcome.kind = "timeout" -> "TimeoutExpired"
      [] OTHER -> "none"

\* A mutant: the AST-based validator returns early on an empty code
AstBasedShortCircuit(code, expected, outcome) ==
    IF code \in {"None", ""}
    THEN [done |-> TRUE, raised |-> FALSE, exc |-> "none",
          spawned |-> FALSE,
          written |-> "", score |-> 0, missing |-> expected.keys,
          report |-> NoReport]
    ELSE IF outcome.kind # "report"
    THEN [done |-> TRUE, raised |-> TRUE, exc |-> ParserException(outcome),
          spawned |-> TRUE,
          written |-> code, score |-> 0, missing |-> {}, report |-> NoReport]
    ELSE [done |-> TRUE, raised |-> FALSE, exc |-> "none", spawned |-> TRUE,
          written |-> code,
          score |-> AstScore(expected, outcome.report),
          missing |-> AstMissing(expected, outcome.report),
          report |-> outcome.report]
\* validate_ast_structure of the AST-based modules: the code (None as "") is
\* written to a temporary file, the parser process runs on it, and the
\* result is read off its report; every other end of the process raises
AstBased(code, expected, outcome) ==
    IF outcome.kind # "report"
    THEN [done |-> TRUE, raised |-> TRUE, exc |-> ParserException(outcome),
          spawned |-> TRUE,
          written |-> IF code = "None" THEN "" ELSE code,
          score |-> 0, missing |-> {}, report |-> NoReport]
    ELSE [done |-> TRUE, raised |-> FALSE, exc |-> "none", spawned |-> TRUE,
          written |-> IF code = "None" THEN "" ELSE code,
          score |-> AstScore(expected, outcome.report),
          missing |-> AstMissing(expected, outcome.report),
          report |-> outcome.report]

\* the fragments a component of the creation family is made of
Fragments == {"<script setup lang=\"ts\">", "useForm(", "z.object(",
              "toTypedSchema(", "email", "password", "errors.email",
              "<ErrorMessage"}

\* the regular expressions of the regex-based validator that match inside a
\* fragment; \bemail\b matches inside errors.email as well
Hits(t) ==
    CASE t = "<script setup lang=\"ts\">" -> {"<script[^>]+lang=[\"']ts[\"']"}
      [] t = "useForm(" -> {"\\buseForm\\s*\\("}
      [] t = "z.object(" -> {"\\bz\\.object\\s*\\("}
      [] t = "toTypedSchema(" -> {"\\btoTypedSchema\\s*\\("}
      [] t = "email" -> {"\\bemail\\b"}
      [] t = "password" -> {"\\bpassword\\b"}
      [] t = "errors.email" -> {"\\berrors\\.[a-zA-Z]", "\\bemail\\b"}
      [] t = "<ErrorMessage" -> {"<ErrorMessage"}

\* re.search(pattern, code)
Search(pattern, code) == \E t \in code.text : pattern \in Hits(t)

\* rf"\b{re.escape(f)}\b"
FieldPattern(f) ==
    CASE f = "email" -> "\\bemail\\b" [] f = "password" -> "\\bpassword\\b"

\* the code argument of the regex-based validator: None, or a text that is
\* the set of its fragments ("" has none)
RegexCodes ==
    {[isNone |-> TRUE, text |-> {}]}
    \cup { [isNone |-> FALSE, text |-> t] : t \in SUBSET Fragments }

\* the keys of expected_patterns: the six the validator knows and one that
\* it does not
PatternKeys == {"script_lang", "use_form", "zod_schema", "typed_schema",
                "fields", "error_display", "other"}

\* the lists of required field names
FieldLists == {<<>>, <<"email">>, <<"email", "password">>}

\* expected_patterns: the keys present, the value of "script_lang" and the
\* value of "fields" (both at their .get default when the key is absent)
RegexExpected ==
    { e \in [keys : SUBSET PatternKeys, script_lang : {"ts", "js", "None"},
             fields : FieldLists] :
        /\ ("script_lang" \in e.keys) <=> (e.script_lang # "None")
        /\ "fields" \notin e.keys => e.fields = <<>> }

\* A mutant: one of the two schema calls earns the schema points
SchemaFoundEither(code) ==
    Search("\\bz\\.object\\s*\\(", code)
        \/ Search("\\btoTypedSchema\\s*\\(", code)
\* the composite schema check: z.object( and toTypedSchema( are both there
SchemaFound(code) ==
    Search("\\bz\\.object\\s*\\(", code)
        /\ Search("\\btoTypedSchema\\s*\\(", code)

\* missing_fields == []
FieldsFound(fields, code) ==
    \A i \in 1..Len(fields) : Search(FieldPattern(fields[i]), code)

\* has_errors_dot or has_error_message_component
ErrorDisplayFound(code) ==
    Search("\\berrors\\.[a-zA-Z]", code) \/ Search("<ErrorMessage", code)

\* the blocks of the regex-based validator that run (their if holds) and
\* whether each found its pattern
RegexChecks(code, expected) ==
    [script_lang |->
        [run |-> expected.script_lang = "ts",
         found |-> Search("<script[^>]+lang=[\"']ts[\"']", code)],
     use_form |->
        [run |-> "use_form" \in expected.keys,
         found |-> Search("\\buseForm\\s*\\(", code)],
     schema |->
        [run |-> "zod_schema" \in expected.keys
                    \/ "typed_schema" \in expected.keys,
         found |-> SchemaFound(code)],
     fields |->
        [run |-> expected.fields # <<>>,
         found |-> FieldsFound(expected.fields, code)],
     error_display |->
        [run |-> "error_display" \in expected.keys,
         found |-> ErrorDisplayFound(code)]]

\* the keys appended to missing by the regex-based validator
RegexMissing(code, expected) ==
    LET c == RegexChecks(code, expected) IN
    {k \in {"script_lang", "use_form", "fields", "error_display"} :
        c[k].run /\ ~c[k].found}
    \cup {k \in {"zod_schema"} :
            /\ c.schema.run /\ ~c.schema.found
            /\ ~Search("\\bz\\.object\\s*\\(", code)
            /\ "zod_schema" \in expected.keys}
    \cup {k \in {"typed_schema"} :
            /\ c.schema.run /\ ~c.schema.found
            /\ ~Search("\\btoTypedSchema\\s*\\(", code)
            /\ "typed_schema" \in expected.keys}

\* the score of the regex-based validator, in tenths: 2.0 for each block
\* that ran and found its pattern
RegexScore(code, expected) ==
    LET c == RegexChecks(code, expected)
        Points(k) == IF c[k].run /\ c[k].found THEN 200 ELSE 0
    IN Round1(Points("script_lang") + Points("use_form") + Points("schema")
              + Points("fields") + Points("error_display"))

\* validate_ast_structure of creation/veevalidate_zod_form: "if not code"
\* returns 0.0 and every key of expected_patterns; no process is started
RegexBased(code, expected) ==
    IF code.isNone \/ code.text = {}
    THEN [done |-> TRUE, raised |-> FALSE, spawned |-> FALSE,
          score |-> 0, missing |-> expected.keys]
    ELSE [done |-> TRUE, raised |-> FALSE, spawned |-> FALSE,
          score |-> RegexScore(code, expected),
          missing |-> RegexMissing(code, expected)]

\* A name is the sequence of its words: UserProps is <<"User", "Props">>.
\* the words that start with an uppercase letter, and with a lowercase one
UpperWords == {"User", "Props", "Emits", "Data", "Email"}

LowerWords == {"user", "email"}

\* name[0].isupper() and name[0].islower()
FirstIsUpper(name) == name[1] \in UpperWords

FirstIsLower(name) == name[1] \in LowerWords

\* name.endswith(suffix); the empty suffix ends every name
EndsWith(name, suffix) ==
    /\ Len(suffix) <= Len(name)
    /\ SubSeq(name, Len(name) - Len(suffix) + 1, Len(name)) = suffix

\* the most declarations in one component
MaxDeclarations == 2

\* the interface names that interface\s+([a-zA-Z][a-zA-Z0-9]*) finds
InterfaceNames == {<<"User", "Props">>, <<"User", "Emits">>,
                   <<"user", "Props">>, <<"User", "Data">>, <<"Props">>}

\* the variable names that (?:const|let|var)\s+([a-zA-Z_$][a-zA-Z0-9_$]*)
\* finds
VariableNames == {<<"email">>, <<"user", "Email">>, <<"Email">>,
                  <<"_", "email">>, <<"$", "email">>}

\* re.findall over a component: the declared names in their order
Declarations(names) ==
    UNION { [1..n -> names] : n \in 0..MaxDeclarations }

\* the value of "interface_suffixes": absent or null, or a list
SuffixLists ==
    { [isNone |-> TRUE, list |-> <<>>] }
    \cup { [isNone |-> FALSE, list |-> l] :
             l \in {<<>>, << <<"Props">> >>, << <<"Props">>, <<"Emits">> >>} }

\* the value of "props_interface_suffix": absent or null, or a string
LegacySuffixes ==
    { [isNone |-> TRUE, suffix |-> <<>>] }
    \cup { [isNone |-> FALSE, suffix |-> s] :
             s \in {<<>>, <<"Props">>, <<"Emits">>} }

\* naming_conventions of the interface-naming validators
InterfaceConventions ==
    [interfaces : {"PascalCase", "camelCase", "None"},
     interface_suffixes : SuffixLists,
     props_interface_suffix : LegacySuffixes]

\* naming_conventions of the variable-naming validator
VariableConventions == [variables : {"camelCase", "", "None"}]

\* the PascalCase violation of one interface
PascalViolation(name, conventions) ==
    IF conventions.interfaces = "PascalCase" /\ ~FirstIsUpper(name)
    THEN << [name |-> name, rule |-> "PascalCase"] >> ELSE <<>>

\* "if required_suffix and not interface_name.endswith(required_suffix)"
LegacySuffixViolation(name, conventions) ==
    LET legacy == conventions.props_interface_suffix IN
    IF ~legacy.isNone /\ legacy.suffix # <<>>
          /\ ~EndsWith(name, legacy.suffix)
    THEN << [name |-> name, rule |-> "props_interface_suffix"] >> ELSE <<>>

\* typed_emits_composable: "if allowed_suffixes is not None ... elif
\* legacy_suffix"
SuffixViolation(name, conventions) ==
    LET allowed == conventions.interface_suffixes IN
    IF ~allowed.isNone
    THEN IF \E i \in 1..Len(allowed.list) : EndsWith(name, allowed.list[i])
         THEN <<>>
         ELSE << [name |-> name, rule |-> "interface_suffixes"] >>
    ELSE LegacySuffixViolation(name, conventions)

\* the violations one declaration adds, by the module of the validator
ViolationsOf(variant, name, conventions) ==
    CASE variant = "refactoring/typed_emits_composable" ->
            PascalViolation(name, conventions)
                \o SuffixViolation(name, conventions)
      [] variant \in {"agent/ts_bugfix", "validator"} ->
            PascalViolation(name, conventions)
                \o LegacySuffixViolation(name, conventions)
      [] variant = "creation/veevalidate_zod_form" ->
            IF FirstIsLower(name) THEN <<>>
            ELSE << [name |-> name, rule |-> "camelCase"] >>

\* the loop over the declarations
RECURSIVE Violations(_, _, _)
Violations(variant, names, conventions) ==
    IF names = <<>> THEN <<>>
    ELSE ViolationsOf(variant, Head(names), conventions)
             \o Violations(variant, Tail(names), conventions)

\* A mutant: the share of the declarations without a violation
NamingScoreShare(violations, names) ==
    (10 * (Len(names) - Cardinality({violations[i].name :
                                        i \in 1..Len(violations)})))
        \div Len(names)
\* score = 1.0 if follows_conventions else 0.0, in tenths
NamingScore(violations, names) == IF Len(violations) = 0 THEN 10 ELSE 0

\* the NamingResult of the variants
NamingResult(violations, names) ==
    [done |-> TRUE, follows_conventions |-> Len(violations) = 0,
     violations |-> violations, score |-> NamingScore(violations, names)]

\* validate_naming of every module: no declaration (or, in the creation
\* family, no "variables" convention) is 1.0 at once
ValidateNamingOf(variant, names, conventions) ==
    IF variant = "creation/veevalidate_zod_form"
          /\ conventions.variables \in {"", "None"}
    THEN [done |-> TRUE, follows_conventions |-> TRUE, violations |-> <<>>,
          score |-> 10]
    ELSE IF names = <<>>
    THEN [done |-> TRUE, follows_conventions |-> TRUE, violations |-> <<>>,
          score |-> 10]
    ELSE NamingResult(Violations(variant, names, conventions), names)

\* how subprocess.run of "npm run type-check" ends: an exit status with the
\* error lines found in its output, the timeout, or no npm executable
CompilerOutcomes ==
    { [kind |-> "exit", returncode |-> c, error_lines |-> l] :
        c \in {0, 1}, l \in {<<>>, <<"error TS2322">>,
                              <<"error TS2322", "error TS2345">>} }
    \cup { [kind |-> k, returncode |-> 0, error_lines |-> <<>>] :
             k \in {"timeout", "no_npm"} }

\* the target project of validate_compilation: missing, without its
\* package.json, or complete
ProjectStates == {"missing", "no_package", "complete"}

\* "except subprocess.TimeoutExpired" of validate_compilation
OnCompileTimeout ==
    [done |-> TRUE, raised |-> FALSE, exc |-> "none", spawned |-> TRUE,
     success |-> FALSE,
     errors |-> <<"Compilation timeout after 30 seconds">>]

\* validate_compilation of every validator module
ValidateCompilationOf(project, outcome) ==
    IF project # "complete"
    THEN [done |-> TRUE, raised |-> TRUE, exc |-> "FileNotFoundError",
          spawned |-> FALSE, success |-> FALSE, errors |-> <<>>]
    ELSE CASE outcome.kind = "timeout" -> OnCompileTimeout
           [] outcome.kind = "no_npm" ->
                [done |-> TRUE, raised |-> TRUE, exc |-> "FileNotFoundError",
                 spawned |-> TRUE, success |-> FALSE, errors |-> <<>>]
           [] outcome.kind = "exit" ->
                [done |-> TRUE, raised |-> FALSE, exc |-> "none",
                 spawned |-> TRUE, success |-> outcome.returncode = 0,
                 errors |-> outcome.error_lines]

\* the string run_compilation returns: whether it starts with "ERROR:" and
\* what it says
RunCompilation(outcome) ==
    CASE outcome.kind = "timeout" ->
            [done |-> TRUE, raised |-> FALSE, exc |-> "none",
             spawned |-> TRUE, error |-> TRUE,
             text |-> "Compilation timed out after 60 seconds."]
      [] outcome.kind = "no_npm" ->
            [done |-> TRUE, raised |-> FALSE, exc |-> "none",
             spawned |-> TRUE, error |-> TRUE, text |-> "FileNotFoundError"]
      [] outcome.kind = "exit" /\ outcome.returncode = 0 ->
            [done |-> TRUE, raised |-> FALSE, exc |-> "none",
             spawned |-> TRUE, error |-> FALSE,
             text |-> "Compilation succeeded."]
      [] OTHER ->
            [done |-> TRUE, raised |-> FALSE, exc |-> "none",
             spawned |-> TRUE, error |-> FALSE,
             text |-> IF outcome.error_lines # <<>> THEN "error lines"
                      ELSE "combined output"]


----------------------------------------------------------------------------
(* SpecValidators: one call of one validator on any input *)
----------------------------------------------------------------------------
AstCalls ==
    [fn : {"validate_ast_structure"}, variant : AstVariants, code : AstCodes,
     expected : AstExpected, out : {NoOut}]

RegexCalls ==
    [fn : {"validate_ast_structure"},
     variant : {"creation/veevalidate_zod_form"}, code : RegexCodes,
     expected : RegexExpected, out : {NoOut}]

InterfaceNamingCalls ==
    [fn : {"validate_naming"}, variant : AstVariants,
     code : Declarations(InterfaceNames), conventions : InterfaceConventions,
     out : {NoOut}]

VariableNamingCalls ==
    [fn : {"validate_naming"}, variant : {"creation/veevalidate_zod_form"},
     code : Declarations(VariableNames), conventions : VariableConventions,
     out : {NoOut}]

CompilationCalls ==
    [fn : {"validate_compilation"},
     variant : AstVariants \cup {"creation/veevalidate_zod_form"},
     project : ProjectStates, out : {NoOut}]
    \cup [fn : {"run_compilation"}, variant : {"agent/common/tools"},
          project : {"complete"}, out : {NoOut}]

InitValidators ==
    /\ ToolsUnused
    /\ OrchUnused
    /\ DriverUnused
    /\ BatchUnused
    /\ fs = <<>>
    /\ \/ vcall \in AstCalls
       \/ vcall \in RegexCalls
       \/ vcall \in InterfaceNamingCalls
       \/ vcall \in VariableNamingCalls
       \/ vcall \in CompilationCalls

\* validate_ast_structure of an AST-based module, with any end of the parser
CallAstBased ==
    /\ vcall.fn = "validate_ast_structure"
    /\ vcall.variant \in AstVariants
    /\ ~vcall.out.done
    /\ \E outcome \in ParserOutcomes :
        vcall' = [vcall EXCEPT
                    !.out = AstBased(vcall.code, vcall.expected, outcome)]
    /\ UNCHANGED <<fs, toolVars, orchVars, driverVars, batch>>

\* validate_ast_structure of the creation family
CallRegexBased ==
    /\ vcall.fn = "validate_ast_structure"
    /\ vcall.variant = "creation/veevalidate_zod_form"
    /\ ~vcall.out.done
    /\ vcall' = [vcall EXCEPT !.out = RegexBased(vcall.code, vcall.expected)]
    /\ UNCHANGED <<fs, toolVars, orchVars, driverVars, batch>>

\* validate_naming of any module
CallValidateNaming ==
    /\ vcall.fn = "validate_naming"
    /\ ~vcall.out.done
    /\ vcall' = [vcall EXCEPT
                   !.out = ValidateNamingOf(vcall.variant, vcall.code,
                                            vcall.conventions)]
    /\ UNCHANGED <<fs, toolVars, orchVars, driverVars, batch>>

\* validate_compilation of any module, with any end of the compiler
CallValidateCompilation ==
    /\ vcall.fn = "validate_compilation"
    /\ ~vcall.out.done
    /\ \E outcome \in CompilerOutcomes :
        vcall' = [vcall EXCEPT
                    !.out = ValidateCompilationOf(vcall.project, outcome)]
    /\ UNCHANGED <<fs, toolVars, orchVars, driverVars, batch>>

\* the run_compilation tool, with any end of the compiler
CallRunCompilation ==
    /\ vcall.fn = "run_compilation"
    /\ ~vcall.out.done
    /\ \E outcome \in CompilerOutcomes :
        vcall' = [vcall EXCEPT !.out = RunCompilation(outcome)]
    /\ UNCHANGED <<fs, toolVars, orchVars, driverVars, batch>>

NextValidators ==
    \/ CallAstBased
    \/ CallRegexBased
    \/ CallValidateNaming
    \/ CallValidateCompilation
    \/ CallRunCompilation

SpecValidators == InitValidators /\ [][NextValidators]_vars

----------------------------------------------------------------------------
(* The inference client: chat of common/ollama_client.py *)
----------------------------------------------------------------------------
\* the pieces the text of an exception is made of
ErrorPieces == {"Model 'm' Not Found", "does not exist", "Connection",
                "refused", "TIMEOUT", "timed out", "boom"}

\* str.lower() of a piece
Lower(piece) ==
    CASE piece = "Model 'm' Not Found" -> "model 'm' not found"
      [] piece = "Connection" -> "connection"
      [] piece = "TIMEOUT" -> "timeout"
      [] OTHER -> piece

\* keyword in error_msg, for a text that is the set of its pieces; the test
\* is on the exact characters, so a piece counts only in its lowered form
InText(keyword, text) ==
    \E piece \in text :
        \/ piece = keyword
        \/ piece = "model 'm' not found" /\ keyword = "not found"

\* error_msg = str(e).lower()
LowerText(text) == { Lower(piece) : piece \in text }

\* A mutant: the timeout test comes before the connection test
ChatErrorTimeoutFirst(text) ==
    LET error_msg == LowerText(text) IN
    IF InText("not found", error_msg) \/ InText("does not exist", error_msg)
    THEN "ModelNotFoundError"
    ELSE IF InText("timeout", error_msg) \/ InText("timed out", error_msg)
    THEN "TimeoutError"
    ELSE IF InText("connection", error_msg) \/ InText("refused", error_msg)
    THEN "OllamaConnectionError"
    ELSE "original"
\* the except clause of chat: the exception that leaves it
ChatError(text) ==
    LET error_msg == LowerText(text) IN
    IF InText("not found", error_msg) \/ InText("does not exist", error_msg)
    THEN "ModelNotFoundError"
    ELSE IF InText("connection", error_msg) \/ InText("refused", error_msg)
    THEN "OllamaConnectionError"
    ELSE IF InText("timeout", error_msg) \/ InText("timed out", error_msg)
    THEN "TimeoutError"
    ELSE "original"

\* an optional field of the response: absent, or present with a value
Field(values) ==
    {[has |-> FALSE, value |-> 0]}
    \cup {[has |-> TRUE, value |-> v] : v \in values}

\* the responses of ollama.chat: message.content, eval_duration in
\* nanoseconds and eval_count, each of them optional
ChatResponses ==
    [content : Field({1}), eval_duration : Field({0, 500000000, 2000000000}),
     eval_count : Field({0, 10})]

\* response.get(key, 0)
GetOr0(field) == IF field.has THEN field.value ELSE 0

\* duration_sec in milliseconds: eval_duration_ns / 1_000_000_000 if
\* eval_duration_ns else 0.0
DurationOf(eval_duration_ns) ==
    IF eval_duration_ns # 0 THEN eval_duration_ns \div 1000000 ELSE 0

\* A mutant: the rate of a zero duration is the token count
ChatTokensPerSecUnguarded(tokens_generated, duration) ==
    IF duration > 0 THEN (tokens_generated * 1000000) \div duration
    ELSE 1000 * tokens_generated
\* tokens_per_sec in thousandths: tokens_generated / duration_sec if
\* duration_sec > 0 else 0.0
ChatTokensPerSec(tokens_generated, duration) ==
    IF duration > 0 THEN (tokens_generated * 1000000) \div duration ELSE 0

\* the ChatResult of a response
ChatResult(response) ==
    LET duration == DurationOf(GetOr0(response.eval_duration))
        tokens == GetOr0(response.eval_count)
    IN [done |-> TRUE, raised |-> FALSE, exc |-> "none",
        response_text |-> IF response.content.has THEN "content" ELSE "",
        duration_sec |-> duration, tokens_generated |-> tokens,
        tokens_per_sec |-> ChatTokensPerSec(tokens, duration),
        success |-> TRUE, error |-> "None"]

\* what chat ends in when an exception with the text is raised in its try
ChatRaised(text) ==
    [done |-> TRUE, raised |-> TRUE, exc |-> ChatError(text),
     response_text |-> "", duration_sec |-> 0, tokens_generated |-> 0,
     tokens_per_sec |-> 0, success |-> FALSE, error |-> "None"]

InitChat ==
    /\ ToolsUnused
    /\ OrchUnused
    /\ DriverUnused
    /\ BatchUnused
    /\ fs = <<>>
    /\ \/ vcall \in [fn : {"chat"}, backend : {"response"},
                     response : ChatResponses, text : {{}}, out : {NoOut}]
       \/ vcall \in [fn : {"chat"}, backend : {"exception"},
                     response : {<<>>}, text : SUBSET ErrorPieces,
                     out : {NoOut}]

\* chat: ollama.chat answers
ChatReturns ==
    /\ vcall.backend = "response"
    /\ ~vcall.out.done
    /\ vcall' = [vcall EXCEPT !.out = ChatResult(vcall.response)]
    /\ UNCHANGED <<fs, toolVars, orchVars, driverVars, batch>>

\* chat: ollama.chat raises
ChatRaises ==
    /\ vcall.backend = "exception"
    /\ ~vcall.out.done
    /\ vcall' = [vcall EXCEPT !.out = ChatRaised(vcall.text)]
    /\ UNCHANGED <<fs, toolVars, orchVars, driverVars, batch>>

NextChat ==
    \/ ChatReturns
    \/ ChatRaises

SpecChat == InitChat /\ [][NextChat]_vars

----------------------------------------------------------------------------
(* Code extraction: _extract_vue_code of the prompt-only orchestrators *)
----------------------------------------------------------------------------
\* A response is the sequence of its lines.  <fence> stands for the three
\* backticks of a fence marker; a marker stands at the start of a line and a
\* tag is followed by the end of the line.

\* the most lines of a response
MaxLines == 5

\* the lines: a fence tagged vue, a fence tagged ts, a bare fence, two lines
\* of code and a blank line
ResponseLines == {"<fence>vue", "<fence>ts", "<fence>", "A", "B", ""}

Responses == UNION { [1..n -> ResponseLines] : n \in 0..MaxLines }

\* the line starts with three backticks
IsFence(line) == line \in {"<fence>vue", "<fence>ts", "<fence>"}

\* str.strip() of a text: the blank lines at both ends go
RECURSIVE StripLeft(_)
StripLeft(lines) ==
    IF lines # <<>> /\ Head(lines) = "" THEN StripLeft(Tail(lines))
    ELSE lines

RECURSIVE StripRight(_)
StripRight(lines) ==
    IF lines # <<>> /\ lines[Len(lines)] = ""
    THEN StripRight(SubSeq(lines, 1, Len(lines) - 1))
    ELSE lines

Strip(lines) == StripRight(StripLeft(lines))

\* the blank lines that follow line i without a gap
RECURSIVE BlankRun(_, _)
BlankRun(response, i) ==
    IF i + 1 <= Len(response) /\ response[i + 1] = ""
    THEN 1 + BlankRun(response, i + 1) ELSE 0

\* the fence lines at or after line j
FencesFrom(response, j) ==
    {k \in j..Len(response) : IsFence(response[k])}

Min(S) == CHOOSE x \in S : \A y \in S : x <= y

Max(S) == CHOOSE x \in S : \A y \in S : x >= y

\* the ways opener\s*\n(.*?)\n<fence> matches from the opener in line i: \s*\n
\* ends with the line break of line i + m - 1 (the greedy \s* takes the
\* blank lines it can), the group starts with line i + m, and the closing
\* \n<fence> is the first fence line after the group's first line break
GroupStarts(response, i) ==
    {m \in 1..(BlankRun(response, i) + 1) :
        FencesFrom(response, i + m + 1) # {}}

\* group(1) of the match from the opener in line i
GroupOf(response, i) ==
    LET m == Max(GroupStarts(response, i))
        j == Min(FencesFrom(response, i + m + 1))
    IN SubSeq(response, i + m, j - 1)

\* re.search(opener\s*\n(.*?)\n<fence>, response, re.DOTALL): the lines that
\* hold the opener and from which the pattern matches
MatchStarts(response, opener) ==
    {i \in 1..Len(response) :
        response[i] = opener /\ GroupStarts(response, i) # {}}

\* _extract_vue_code: the fence tagged vue, then the bare fence, then the
\* response as it is, each stripped
ExtractVueCode(response) ==
    IF MatchStarts(response, "<fence>vue") # {}
    THEN Strip(GroupOf(response, Min(MatchStarts(response, "<fence>vue"))))
    ELSE IF MatchStarts(response, "<fence>") # {}
    THEN Strip(GroupOf(response, Min(MatchStarts(response, "<fence>"))))
    ELSE Strip(response)

InitExtract ==
    /\ ToolsUnused
    /\ OrchUnused
    /\ DriverUnused
    /\ BatchUnused
    /\ fs = <<>>
    /\ vcall \in [fn : {"_extract_vue_code"}, response : Responses,
                  out : {NoOut}]

\* output_code = self._extract_vue_code(chat_result.response_text)
CallExtract ==
    /\ vcall.fn = "_extract_vue_code"
    /\ ~vcall.out.done
    /\ vcall' = [vcall EXCEPT
                   !.out = [done |-> TRUE,
                            code |-> ExtractVueCode(vcall.response)]]
    /\ UNCHANGED <<fs, toolVars, orchVars, driverVars, batch>>

NextExtract == CallExtract

SpecExtract == InitExtract /\ [][NextExtract]_vars

----------------------------------------------------------------------------
(* The GPU monitor: monitor_gpu_during_inference of gpu_monitor.py *)

\* The main thread and the poller thread take turns at the points where the
\* interpreter can switch threads: every read of a sample list by the main
\* thread and every append by the poller is a step of its own.  Utilization
\* is in percent, memory in MB; averages are in thousandths.  The field
\* history holds the results of the polls that have ended, in order.

\* the polls one call can make in the model
MaxPolls == 3

\* the text of a field of nvidia-smi that float() accepts, and its value
Floats == [x \in {"80", "90", "10000", "12000"} |->
             CASE x = "80" -> 80 [] x = "90" -> 90
               [] x = "10000" -> 10000 [] x = "12000" -> 12000]

\* _parse_field: "[N/A]" is 0.0, else float(value), which may raise ValueError
ParseField(raw) ==
    IF raw = "[N/A]" THEN [ok |-> TRUE, value |-> 0]
    ELSE IF raw \in DOMAIN Floats THEN [ok |-> TRUE, value |-> Floats[raw]]
    ELSE [ok |-> FALSE, value |-> 0]

\* parse_nvidia_smi_output on the first line of the output, given as its
\* fields between the commas (<<>> is an empty output): ValueError unless
\* there are two fields that both parse
ParseNvidiaSmiOutput(line) ==
    IF Len(line) # 2 THEN [ok |-> FALSE, utilization |-> 0, memory_mb |-> 0]
    ELSE [ok |-> ParseField(line[1]).ok /\ ParseField(line[2]).ok,
          utilization |-> ParseField(line[1]).value,
          memory_mb |-> ParseField(line[2]).value]

\* what subprocess.run of nvidia-smi ends in: a completed process, or an
\* exception (TimeoutExpired after 5 seconds, OSError)
SmiResults ==
    { [kind |-> "completed", returncode |-> 0, stdout |-> o] :
        o \in { <<"80", "10000">>, <<"90", "12000">>, <<"[N/A]", "12000">>,
                <<>>, <<"x", "10000">>, <<"80", "10000", "1">> } }
    \cup { [kind |-> "completed", returncode |-> 1, stdout |-> <<>>],
           [kind |-> "exception", returncode |-> 0, stdout |-> <<>>] }

\* A mutant: a poll that failed counts as a sample of 0.0
PollSampleZeroOnFailure(r) ==
    IF r.kind = "completed" /\ r.returncode = 0 /\ ParseNvidiaSmiOutput(r.stdout).ok
    THEN ParseNvidiaSmiOutput(r.stdout)
    ELSE [ok |-> TRUE, utilization |-> 0, memory_mb |-> 0]

\* one iteration of poll_gpu: the sample it appends, if it appends one
PollSample(r) ==
    IF r.kind = "completed" /\ r.returncode = 0
    THEN ParseNvidiaSmiOutput(r.stdout)
    ELSE [ok |-> FALSE, utilization |-> 0, memory_mb |-> 0]

RECURSIVE SumOf(_)
SumOf(s) == IF s = <<>> THEN 0 ELSE s[1] + SumOf(Tail(s))

MaxOf(s) == CHOOSE x \in { s[i] : i \in 1..Len(s) } :
                \A i \in 1..Len(s) : s[i] <= x

NoReads == [sum_u |-> 0, len_u |-> 0, max_u |-> 0, sum_m |-> 0, len_m |-> 0,
            max_m |-> 0]

NoMetrics == [returned |-> FALSE]

\* GPUMetrics(...) of lines 193-199
ZeroMetrics ==
    [returned |-> TRUE, avg_utilization |-> 0, peak_utilization |-> 0,
     avg_memory_used |-> 0, peak_memory_used |-> 0, samples |-> 0]

\* GPUMetrics(...) of lines 201-214, from what the main thread read
MetricsOf(rd, samples) ==
    [returned |-> TRUE,
     avg_utilization |-> (rd.sum_u * 1000) \div rd.len_u,
     peak_utilization |-> rd.max_u * 1000,
     avg_memory_used |-> ((rd.sum_m * 1000) \div rd.len_m) \div 1024,
     peak_memory_used |-> (rd.max_m * 1000) \div 1024,
     samples |-> samples]

InitGpu ==
    /\ ToolsUnused
    /\ OrchUnused
    /\ DriverUnused
    /\ BatchUnused
    /\ fs = <<>>
    /\ vcall \in [fn : {"monitor_gpu_during_inference"},
                  available : BOOLEAN,
                  main : {"start"},
                  exc : {"none"},
                  monitoring_active : {FALSE},
                  poller : {"not_started"},
                  pending : {0},
                  utilization_samples : {<<>>},
                  memory_samples : {<<>>},
                  polls : {0},
                  history : {<<>>},
                  join_timed_out : {FALSE},
                  reads : {NoReads},
                  out : {NoMetrics}]

GpuFrame == UNCHANGED <<fs, toolVars, orchVars, driverVars, batch>>

IsGpu == vcall.fn = "monitor_gpu_during_inference"

\* lines 136-177: the availability check, the event, the start of the thread
StartMonitoring ==
    /\ IsGpu /\ vcall.main = "start"
    /\ vcall' = IF vcall.available
                THEN [vcall EXCEPT !.main = "callback",
                                   !.monitoring_active = TRUE,
                                   !.poller = "test"]
                ELSE [vcall EXCEPT !.main = "raised",
                                   !.exc = "GPUNotAvailableError"]
    /\ GpuFrame

\* line 149: while monitoring_active.is_set()
PollerTest ==
    /\ IsGpu /\ vcall.poller = "test"
    /\ vcall.monitoring_active => vcall.polls < MaxPolls
    /\ vcall' = IF vcall.monitoring_active
                THEN [vcall EXCEPT !.poller = "run", !.polls = @ + 1]
                ELSE [vcall EXCEPT !.poller = "done"]
    /\ GpuFrame

\* lines 150-170: subprocess.run ends; a good sample is parsed and appended
\* to utilization_samples (line 164), anything else is logged
PollerRun(r) ==
    /\ IsGpu /\ vcall.poller = "run"
    /\ LET s == PollSample(r)
       IN  vcall' = IF s.ok
                    THEN [vcall EXCEPT
                            !.utilization_samples = Append(@, s.utilization),
                            !.pending = s.memory_mb,
                            !.history = Append(@, r),
                            !.poller = "append_memory"]
                    ELSE [vcall EXCEPT !.history = Append(@, r),
                                       !.poller = "sleep"]
    /\ GpuFrame

\* line 165: memory_samples.append(memory_mb)
PollerAppendMemory ==
    /\ IsGpu /\ vcall.poller = "append_memory"
    /\ vcall' = [vcall EXCEPT !.memory_samples = Append(@, vcall.pending),
                              !.pending = 0,
                              !.poller = "sleep"]
    /\ GpuFrame

\* line 173: time.sleep(polling_interval) is over
PollerWakes ==
    /\ IsGpu /\ vcall.poller = "sleep"
    /\ vcall' = [vcall EXCEPT !.poller = "test"]
    /\ GpuFrame

\* lines 181-185: the callback returns or raises; finally, the event is cleared
CallbackEnds(raises) ==
    /\ IsGpu /\ vcall.main = "callback"
    /\ vcall' = [vcall EXCEPT !.main = "join",
                              !.monitoring_active = FALSE,
                              !.exc = IF raises THEN "callback" ELSE "none"]
    /\ GpuFrame

\* after join the exception of the callback propagates, else line 189 is next
AfterJoin(c) ==
    IF c.exc = "callback" THEN [c EXCEPT !.main = "raised"]
    ELSE [c EXCEPT !.main = "line189"]

\* line 186: join returns because the poller thread has ended
JoinEnds ==
    /\ IsGpu /\ vcall.main = "join" /\ vcall.poller = "done"
    /\ vcall' = AfterJoin(vcall)
    /\ GpuFrame

\* line 186: join(timeout=2.0) returns after 2 seconds while the poller is
\* still in subprocess.run (timeout=5) or in time.sleep(polling_interval)
JoinTimesOut ==
    /\ IsGpu /\ vcall.main = "join" /\ vcall.poller \in {"run", "sleep"}
    /\ vcall' = AfterJoin([vcall EXCEPT !.join_timed_out = TRUE])
    /\ GpuFrame

\* lines 189-199: if not utilization_samples
TestSamples ==
    /\ IsGpu /\ vcall.main = "line189"
    /\ vcall' = IF vcall.utilization_samples = <<>>
                THEN [vcall EXCEPT !.main = "returned", !.out = ZeroMetrics]
                ELSE [vcall EXCEPT !.main = "sum_u"]
    /\ GpuFrame

\* lines 201-206: the reads of the two lists, one at a time; the division
\* by len(memory_samples) raises ZeroDivisionError on an empty list
ReadSamples ==
    /\ IsGpu
    /\ LET u == vcall.utilization_samples
           mm == vcall.memory_samples
       IN  \/ /\ vcall.main = "sum_u"
              /\ vcall' = [vcall EXCEPT !.reads.sum_u = SumOf(u), !.main = "len_u"]
           \/ /\ vcall.main = "len_u"
              /\ vcall' = [vcall EXCEPT !.reads.len_u = Len(u), !.main = "max_u"]
           \/ /\ vcall.main = "max_u"
              /\ vcall' = [vcall EXCEPT !.reads.max_u = MaxOf(u), !.main = "sum_m"]
           \/ /\ vcall.main = "sum_m"
              /\ vcall' = [vcall EXCEPT !.reads.sum_m = SumOf(mm), !.main = "len_m"]
           \/ /\ vcall.main = "len_m"
              /\ vcall' = IF mm = <<>>
                          THEN [vcall EXCEPT !.main = "raised",
                                             !.exc = "ZeroDivisionError"]
                          ELSE [vcall EXCEPT !.reads.len_m = Len(mm),
                                             !.main = "max_m"]
           \/ /\ vcall.main = "max_m"
              /\ vcall' = [vcall EXCEPT !.reads.max_m = MaxOf(mm),
                                        !.main = "line208"]
    /\ GpuFrame

\* lines 208-221: GPUMetrics(..., samples=len(utilization_samples))
ReturnMetrics ==
    /\ IsGpu /\ vcall.main = "line208"
    /\ vcall' = [vcall EXCEPT
                   !.main = "returned",
                   !.out = MetricsOf(vcall.reads, Len(vcall.utilization_samples))]
    /\ GpuFrame

NextGpu ==
    \/ StartMonitoring
    \/ PollerTest
    \/ \E r \in SmiResults : PollerRun(r)
    \/ PollerAppendMemory
    \/ PollerWakes
    \/ \E raises \in BOOLEAN : CallbackEnds(raises)
    \/ JoinEnds
    \/ JoinTimesOut
    \/ TestSamples
    \/ ReadSamples
    \/ ReturnMetrics

SpecGpu == InitGpu /\ [][NextGpu]_vars

\* the threads are scheduled fairly: the callback ends, a poll ends within
\* its 5 seconds, a sleep ends, the loop test is made
SpecGpuFair ==
    /\ SpecGpu
    /\ WF_vars(\E raises \in BOOLEAN : CallbackEnds(raises))
    /\ WF_vars(PollerTest)
    /\ WF_vars(\E r \in SmiResults : PollerRun(r))
    /\ WF_vars(PollerAppendMemory)
    /\ WF_vars(PollerWakes)

----------------------------------------------------------------------------
(* Claims about the sandbox tool set, checked under SpecTools *)

Disjoint(r1, r2) == ~IsInside(r1, r2) /\ ~IsInside(r2, r1)

CalledFull == Resolve(Join(BoundRoot(ret.ts), ret.path))

\* C6 as stated: write_file returns "OK" if and only if the path is
\* string-equal to a member of the allow-list, whatever the member is.
C6_Original ==
    ret.tool = "write_file" =>
        (ret.kind = "OK" <=> ret.path \in allow[ret.ts])

C6_Step ==
    ret'.tool = "write_file" =>
        LET t      == ret'.ts
            member == ret'.path \in allow[t]
            full   == Resolve(Join(roots[t], ret'.path))
            inside == IsInside(roots[t], full)
            writable == /\ ~IsDir(fs, full)
                        /\ \A a \in Ancestors(Parent(full)) : ~IsFile(fs, a)
        IN  /\ ret'.kind \in {"OK", "ERROR"}
            /\ ret'.kind = "OK" =>
                  /\ member /\ inside
                  /\ IsFile(fs', full) /\ fs'[full] = Tag(t)
                  /\ \A n \in DOMAIN fs : n # full => n \in DOMAIN fs' /\ fs'[n] = fs[n]
            /\ (member /\ inside /\ writable) => ret'.kind = "OK"
            /\ (~member \/ ~inside) => ret'.kind = "ERROR" /\ fs' = fs

\* C6 (amended): write_file returns "OK" and writes the file only if the path
\* is string-equal to a member of the allow-list and resolves inside the
\* root, and it does so whenever the file system takes the write; for a path
\* that is no member (a different spelling of a member included) or that
\* resolves outside the root (an absolute or "../" member included) it
\* returns an "ERROR:" string and creates or changes no file or directory.
C6_AllowList == [][C6_Step]_varsTools

\* C6 witness: after a write that succeeded, an allow-listed path that
\* leaves the root is refused.
C6_Witness ==
    /\ DOMAIN wroteBy # {}
    /\ ret.tool = "write_file" /\ ret.kind = "ERROR"
    /\ ret.path \in allow[ret.ts] /\ ret.outside

C7_Step ==
    (ret'.tool # "none" /\ ret'.outside) =>
        /\ ret'.kind = "ERROR"
        /\ ret'.io = NoIO
        /\ fs' = fs

\* C7: a path whose resolved form lies outside the root makes read_file,
\* write_file and list_files return an "ERROR:" string, with no read, write,
\* mkdir or listing done and the file system left as it was.
C7_PathTraversal == [][C7_Step]_varsTools

\* C7 witness: read_file of an absolute path of a file that exists outside
\* the root was refused.
C7_Witness ==
    /\ ret.tool = "read_file" /\ ret.outside /\ IsAbs(ret.path)
    /\ IsFile(fs, Resolve(ret.path))
    /\ ret.kind = "ERROR"

\* what the last call showed of the other tool set's writes
SeesOther ==
    LET other == 3 - ret.ts
    IN  \/ /\ ret.tool = "read_file" /\ ret.kind = "CONTENT"
           /\ CalledFull \in DOMAIN wroteBy /\ wroteBy[CalledFull] = other
        \/ /\ ret.tool = "list_files" /\ ret.kind = "LIST"
           /\ \E n \in DOMAIN wroteBy :
                 /\ wroteBy[n] = other
                 /\ IsInside(BoundRoot(ret.ts), n)
                 /\ RelativeTo(BoundRoot(ret.ts), n) \in ret.val

\* C8 as stated: for two different roots, one inside the other or not, no
\* read_file or list_files of one tool set returns what write_file of the
\* other tool set wrote.
C8_Original == ret.tool # "none" => ~SeesOther

\* C8 (amended): for two roots neither of which contains the other, no
\* read_file or list_files of one tool set returns a file or content that
\* write_file of the other tool set wrote.
C8_Independence ==
    (ret.tool # "none" /\ Disjoint(roots[1], roots[2])) => ~SeesOther

\* C8 witness: with disjoint roots, tool set 2 has written a file and tool
\* set 1 then reads a file of its own.
C8_Witness ==
    /\ Disjoint(roots[1], roots[2])
    /\ \E n \in DOMAIN wroteBy : wroteBy[n] = 2
    /\ ret.ts = 1 /\ ret.tool = "read_file" /\ ret.kind = "CONTENT"

----------------------------------------------------------------------------
(* Claims about the orchestrators, checked under Spec *)

Exited == pc \in {"returned", "raised"}

\* C1: when run() has returned or raised, in every family and every run, the
\* target file holds the content captured in original_code at construction.
C1_Restoration ==
    Exited => IsFile(fs, TargetFile) /\ fs[TargetFile] = inst.original_code

\* C1 witness: an agentic run whose agent overwrote the target file and whose
\* agent loop then raised.
C1_Witness ==
    /\ pc = "raised" /\ family = "agent" /\ exc.by = "agent"
    /\ \E i \in 1..Len(writes) : writes[i] = "artifact"
    /\ fs[TargetFile] = "orig"

\* C2: an exception of validate_ast_structure or of validate_naming does not
\* leave run(); the result has the sub-score of that validator at 0 and a
\* non-empty errors list, and the other sub-scores are those of their own
\* validators.
C2_Degraded ==
    /\ pc = "raised" => exc.by \notin {"ast", "naming"}
    /\ (loc.ast.raised \/ loc.naming.raised) => pc # "raised"
    /\ pc = "returned" =>
          /\ loc.ast.called /\ loc.naming.called
          /\ loc.ast.raised => result.pattern_score = 0 /\ result.errors # <<>>
          /\ loc.naming.raised => result.naming_score = 0 /\ result.errors # <<>>
          /\ ~loc.ast.raised => result.pattern_score = loc.ast.score
          /\ ~loc.naming.raised => result.naming_score = loc.naming.score * 10
          /\ result.compiles = loc.compiles

\* C2 witness: a run returned although its structural validator raised, with
\* the naming score of the naming validator.
C2_Witness ==
    /\ pc = "returned" /\ loc.ast.raised /\ ~loc.naming.raised
    /\ result.pattern_score = 0 /\ result.naming_score = 10
    /\ Len(result.errors) = 1

ExampleWeights == [compilation |-> 50, pattern_match |-> 40, naming |-> 10]

C4_Original ==
    (family = "agent" /\ Exited) =>
        \A n \in DOMAIN fs \cup DOMAIN fsAtStart :
            IsInside(TargetProject, n) =>
                /\ n \in DOMAIN fs /\ n \in DOMAIN fsAtStart
                /\ fs[n] = fsAtStart[n]

ArtifactOrder ==
    << [node |-> PromptFile,    name |-> "prompt.md"],
       [node |-> SpecFile,      name |-> "validation_spec.json"],
       [node |-> TargetProject, name |-> "target_project"],
       [node |-> TargetFile,    name |-> "target_file"] >>

C9_Step ==
    (pc = "new" /\ pc' # "new") =>
        LET gone == { i \in 1..Len(ArtifactOrder) : ArtifactOrder[i].node \notin DOMAIN fs }
        IN  /\ fs' = fs
            /\ IF gone # {}
               THEN LET first == CHOOSE i \in gone : \A j \in gone : i <= j
                    IN  /\ pc' = "ctor_failed"
                        /\ exc'.type = "FileNotFoundError"
                        /\ exc'.names = ArtifactOrder[first].name
                        /\ inst' = NoInst
               ELSE /\ pc' = "idle"
                    /\ inst'.made
                    /\ inst'.original_code = fs[TargetFile]

\* C9: the constructor checks prompt.md, validation_spec.json, target_project
\* and the target file in this order; the first that is missing raises a
\* FileNotFoundError naming it and no instance is made; the constructor writes
\* no file; with all four there, original_code is the target file's content.
C9_Construction == [][C9_Step]_vars

\* C9 witness: validation_spec.json and the target file are both missing, and
\* the constructor failed on validation_spec.json.
C9_Witness ==
    /\ pc = "ctor_failed" /\ exc.names = "validation_spec.json"
    /\ TargetFile \notin DOMAIN fs /\ TargetProject \in DOMAIN fs
    /\ inst = NoInst

\* the run is past artifact production: the compilation check, the guarded
\* validators and the scoring run in these positions
Validating == pc \in {"written", "compiled", "ast_done", "naming_done"}

HasWrite(w, kind) == \E i \in 1..Len(w) : w[i] = kind

\* the writes of the target file so far have the shape restore-before,
\* artifact writes, and a restore-after in the last place if any
WellOrdered(w) ==
    /\ w # <<>> /\ w[1] = "restore_before"
    /\ \A i \in 2..Len(w) : w[i] # "restore_before"
    /\ \A i \in 1..(Len(w) - 1) : w[i] # "restore_after"

C25_State ==
    /\ runNo > 0 => WellOrdered(writes)
    /\ (runNo > 0 /\ Exited) => writes[Len(writes)] = "restore_after"
    /\ (runNo > 0 /\ ~Exited) => ~HasWrite(writes, "restore_after")
    /\ Validating =>
          /\ IsFile(fs, TargetFile) /\ fs[TargetFile] = loc.output_code
          /\ ~HasWrite(writes, "artifact") =>
                 (family = "agent" /\ fs[TargetFile] = inst.original_code)

C25_Step ==
    /\ (writes' # writes /\ writes' = <<"restore_before">>) =>
          /\ pc \in {"idle", "returned", "raised"} /\ pc' = "restored"
          /\ fs'[TargetFile] = inst.original_code
    /\ (writes' = Append(writes, "artifact")) =>
          /\ pc \in {"extracted", "agent_loop"} /\ ~Exited'
          /\ pc = "extracted" => fs'[TargetFile] = loc.output_code
    /\ (writes' = Append(writes, "restore_after")) =>
          /\ pc' \in {"returned", "raised"}
          /\ fs'[TargetFile] = inst.original_code
    /\ (writes' = writes /\ pc # "new" /\ TargetFile \in DOMAIN fs) =>
          /\ TargetFile \in DOMAIN fs' /\ fs'[TargetFile] = fs[TargetFile]
    /\ (Validating /\ Validating') => (fs' = fs /\ writes' = writes)

\* C25: within one run the first write of the target file is the
\* restore-before write of the snapshot and the last one is the restore-after
\* write of the snapshot; every artifact write (the orchestrator's write of the
\* extracted code, the agent's write_file calls) lies strictly between them;
\* the compilation check and the read of the produced code come after the last
\* artifact write and before the restore-after write, so that the validators
\* see the target file as artifact production left it.
C25_WriteOrder == [](C25_State) /\ [][C25_Step]_vars

\* C25 witness: an agentic run wrote the target file twice, was validated and
\* scored, and the restore-after write came last.
C25_Witness ==
    /\ pc = "returned" /\ family = "agent"
    /\ Len(writes) = 4 /\ writes[2] = "artifact" /\ writes[3] = "artifact"
    /\ writes[4] = "restore_after"
    /\ result.output_code # inst.original_code
    /\ fs[TargetFile] = inst.original_code

\* what the fixture held when the instance was constructed
SnapshotAtConstruction == FixtureFs({})[TargetFile]
PromptAtConstruction ==
    IF family = "refactoring"
    THEN <<FixtureFs({})[PromptFile], FixtureFs({})[TargetFile]>>
    ELSE <<FixtureFs({})[PromptFile]>>

C26_State ==
    /\ inst.made =>
          /\ inst.original_code = SnapshotAtConstruction
          /\ inst.prompt = FixtureFs({})[PromptFile]
          /\ inst.validation_spec = specJson
    /\ pc = "restored" => fs[TargetFile] = SnapshotAtConstruction
    /\ pc \in {"extracted", "agent_loop"} => loc.prompt = PromptAtConstruction

C26_Step == (pc # "new") => (inst' = inst /\ specJson' = specJson)

\* C26: run() changes neither original_code nor the prompt template nor the
\* validation spec of the instance; so, after any sequence of runs that
\* returned or raised, a later run starts from a target file equal to the
\* snapshot taken at construction and sends the same prompt, whatever the
\* earlier runs produced.
C26_InstanceFrame == [](C26_State) /\ [][C26_Step]_vars

\* C26 witness: the second run of an instance, which follows a run that
\* returned or raised, has sent its prompt.
C26_Witness ==
    /\ runNo = 2 /\ pc \in {"extracted", "agent_loop"}
    /\ loc.prompt = PromptAtConstruction
    /\ fs[TargetFile] = SnapshotAtConstruction
    /\ inst.original_code = SnapshotAtConstruction

----------------------------------------------------------------------------
(* Claims about the agent loop driver, checked under SpecAgent *)

\* C10: an exception raised while run_agent drives the agent loop does not
\* leave run_agent; the AgentRunResult returned has succeeded = False, an empty
\* final_output, the message of the exception in errors, and the duration_sec
\* measured from the start of the loop to the moment it ended.
C10_LoopDegraded ==
    /\ ag.pc = "propagated" => (ag.loop_steps = 0 /\ ~ag.caught /\ ag.max_steps = 0)
    /\ ag.caught => ag.pc \in {"extract", "returned"}
    /\ (ag.pc = "returned" /\ ag.caught) =>
          /\ ag.result.returned
          /\ ag.result.succeeded = FALSE
          /\ ag.result.final_output = ""
          /\ \E i \in 1..Len(ag.result.errors) : ag.result.errors[i] = "Agent run error"
          /\ ag.result.duration_sec = ag.ended_at - ag.start_time
          /\ ag.result.duration_sec = ag.loop_steps

\* C10 witness: the agent loop took a step and then raised, and run_agent
\* returned.
C10_Witness ==
    /\ ag.pc = "returned" /\ ag.caught /\ ag.loop_steps >= 1
    /\ ag.result.duration_sec >= 1 /\ ~ag.result.succeeded
    /\ Len(ag.result.errors) = 1

\* C11: when reading agent.memory.steps or iterating its steps raises, at the
\* start or part-way, run_agent still returns; "Log extraction error" is
\* appended to errors, and succeeded, final_output, duration_sec and
\* tokens_per_sec are those the end of the loop determined.
C11_ExtractionDegraded ==
    (ag.pc = "returned" /\ ag.extract_raised) =>
        /\ ag.result.returned
        /\ Len(ag.result.errors) >= 1
        /\ ag.result.errors[Len(ag.result.errors)] = "Log extraction error"
        /\ ag.result.succeeded = ag.outcome.succeeded
        /\ ag.result.final_output = ag.outcome.final_output
        /\ ag.result.duration_sec = ag.ended_at - ag.start_time
        /\ ag.result.tokens_per_sec =
              (IF ag.outcome.output_tokens > 0 /\ ag.ended_at > ag.start_time
               THEN <<ag.outcome.output_tokens, ag.ended_at - ag.start_time>>
               ELSE <<0, 1>>)

\* C11 witness: the second step of the history is malformed; the loop had
\* succeeded with an output and a token count, and the first step is logged.
C11_Witness ==
    /\ ag.pc = "returned" /\ ag.extract_raised
    /\ Len(memory) = 2 /\ ~memory[1].malformed /\ memory[2].malformed
    /\ Len(ag.result.tool_call_log) >= 1
    /\ ag.result.succeeded /\ ag.result.final_output = "Done"
    /\ ag.result.tokens_per_sec = <<150, 2>>
    /\ ag.result.errors = <<"Log extraction error">>

C13_Original ==
    (/\ family = "agent" /\ binding = "agent_client" /\ Exited
     /\ exc.type \notin {"RuntimeError", "FileNotFoundError"}) =>
        /\ pc = "returned"
        /\ result.steps = steps
        /\ result.max_steps = MaxStepsOf(specJson)

----------------------------------------------------------------------------
(* Claims about the batch driver, checked under SpecBatch *)

\* a fixture fails to load: it has no runner, or its constructor finds one of
\* its four artifacts missing
LoadFailed(l) ==
    \/ ~l.registered
    \/ l.missing \cap {"prompt", "spec", "project", "target"} # {}

ResultsOf(name) ==
    { i \in 1..Len(batch.all_results) : batch.all_results[i].fixture = name }

InSeq(x, q) == \E i \in 1..Len(q) : q[i] = x

\* C14: a fixture that fails to load is skipped and the fixtures after it are
\* still run and saved: when main returns from a batch, every fixture of the
\* batch was taken, those that loaded have their results saved, those that did
\* not have none, and the exit status is 1 if a fixture failed to load and 0
\* otherwise; an exception that leaves main is never one of a load failure.
C14_BatchFailures ==
    /\ (batch.pc = "returned" /\ batch.started) =>
          /\ Len(batch.loads) = Len(batch.fixtures)
          /\ \A k \in 1..Len(batch.loads) :
                /\ batch.loads[k].name = batch.fixtures[k]
                /\ IF LoadFailed(batch.loads[k])
                   THEN /\ ~InSeq(batch.fixtures[k], batch.saved)
                        /\ ResultsOf(batch.fixtures[k]) = {}
                   ELSE /\ InSeq(batch.fixtures[k], batch.saved)
                        /\ Cardinality(ResultsOf(batch.fixtures[k])) = batch.runs
          /\ batch.exit =
                (IF \E k \in 1..Len(batch.loads) : LoadFailed(batch.loads[k])
                 THEN 1 ELSE 0)
    /\ batch.pc = "raised" =>
          /\ ~LoadFailed(batch.loads[Len(batch.loads)])
          /\ batch.cause \in {"OllamaError", "FileNotFoundError", "IndexError"}
          /\ batch.cause = "FileNotFoundError" => exc.by = "compilation"

\* C14 witness: the first fixture of two has no target file and is skipped,
\* the second is run and saved, and main returns 1.
C14_Witness ==
    /\ batch.pc = "returned" /\ Len(batch.fixtures) = 2
    /\ batch.loads[1].registered /\ batch.loads[1].missing = {"target"}
    /\ batch.saved = << batch.fixtures[2] >>
    /\ batch.runs = 2 /\ Len(batch.all_results) = 2
    /\ batch.exit = 1

\* a run is in flight from its restore-before write to its return or raise
InFlight == pc \in {"restored", "extracted", "written", "compiled", "ast_done",
                    "naming_done"}

C15_Inv ==
    batch.pc \in {"loop", "fixture", "returned", "raised"} =>
        /\ InFlight => (batch.pc = "fixture" /\ runNo = Len(batch.results) + 1)
        /\ batch.pc = "fixture" =>
              \A k \in 1..Len(batch.results) :
                  batch.results[k] = [fixture |-> Current, run_number |-> k]
        /\ \A i \in 1..Len(batch.all_results) : \A j \in i..Len(batch.all_results) :
              LET a == batch.all_results[i]
                  b == batch.all_results[j]
              IN  /\ a.run_number \in 1..batch.runs
                  /\ (a.fixture = b.fixture) => (b.run_number = a.run_number + (j - i))
                  /\ (a.fixture # b.fixture /\ j = i + 1) =>
                        (a.run_number = batch.runs /\ b.run_number = 1)

C15_Step ==
    /\ (pc' = "restored" /\ pc # "restored") =>
          /\ pc \in {"idle", "returned"}
          /\ runNo' = runNo + 1
          /\ runNo >= 1 =>
                /\ pc = "returned" /\ result.returned /\ result.run_number = runNo
                /\ writes[Len(writes)] = "restore_after"
                /\ fs[TargetFile] = inst.original_code
                /\ Len(batch.results) = runNo
    /\ (batch.pc = "loop" /\ batch'.pc = "fixture") =>
          /\ ~InFlight
          /\ pc = "returned" => (result.run_number = batch.runs
                                  /\ writes[Len(writes)] = "restore_after")

\* C15: at most one run is in flight; run i+1 of a fixture starts only after
\* run i has made its restore-after write and returned; the runs of a fixture
\* are numbered 1..N in the order they are executed; the next fixture is taken
\* only after the last run of the fixture before it has returned.
C15_Sequential == []C15_Inv /\ [][C15_Step]_vars

\* C15 witness: the first run of the second fixture is in flight after the two
\* runs of the first fixture were saved.
C15_Witness ==
    /\ batch.pc = "fixture" /\ batch.index = 2 /\ InFlight /\ runNo = 1
    /\ batch.runs = 2 /\ Len(batch.all_results) = 2
    /\ batch.all_results[1].run_number = 1 /\ batch.all_results[2].run_number = 2
    /\ batch.saved = << batch.fixtures[1] >>

\* main goes on from run_fixture with a list of results: save_results and
\* show_fixture_summary are called with it
SavesResults ==
    /\ batch.pc = "fixture" /\ pc \notin {"ctor_failed", "raised"}
    /\ batch'.pc \in {"loop", "raised"}

OnePerRun(results) ==
    /\ Len(results) = batch.runs
    /\ \A k \in 1..Len(results) : results[k].run_number = k

C30_Step ==
    SavesResults =>
        /\ batch.results # <<>>
        /\ batch'.pc = "loop" /\ batch'.cause = "none"
        /\ OnePerRun(batch.results)
        /\ batch'.all_results = batch.all_results \o batch.results
        /\ batch'.saved = Append(batch.saved, Current)

\* C30 as stated: for every fixture that loads and every configured number of
\* runs, 0 included, main calls save_results and show_fixture_summary with a
\* list of results that is not empty, so that reading results[0] and dividing
\* by the number of results do not fail; the saved list has one result for
\* each executed run, in the order of the runs.
C30_Original == [][C30_Step]_vars

\* with at least one configured run the list that is saved is not empty and
\* has one result for each run, in the order of the runs
C30_PositiveRuns == [][batch.runs > 0 => C30_Step]_vars

\* the failing case: a fixture loaded, no run was configured, and save_results
\* raised IndexError on the empty list
C30_NoRuns ==
    /\ batch.pc = "raised" /\ batch.cause = "IndexError"
    /\ batch.runs = 0 /\ batch.results = <<>>
    /\ pc = "idle" /\ inst.made
    /\ batch.saved = <<>>

----------------------------------------------------------------------------
(* Claims about the validators, checked under SpecValidators *)

\* a call of validate_ast_structure that returned or raised
AstDone == vcall.fn = "validate_ast_structure" /\ vcall.out.done

\* the call is one of an AST-based module
IsAstBased == vcall.variant \in AstVariants

\* the code argument is empty or None
EmptyCode ==
    IF IsAstBased THEN vcall.code \in {"None", ""}
    ELSE vcall.code.isNone \/ vcall.code.text = {}

\* C16 as stated: with both strategies, validate_ast_structure of an empty or
\* None code returns score 0.0 and missing = every key of the expected
\* mapping, and starts no process.
C16_Original ==
    (AstDone /\ EmptyCode) =>
        /\ ~vcall.out.raised
        /\ vcall.out.score = 0
        /\ vcall.out.missing = vcall.expected.keys
        /\ ~vcall.out.spawned

\* C16 (amended): the regex-based validator returns score 0.0 and missing =
\* every key of expected_patterns for an empty or None code and starts no
\* process.  The AST-based validator has no such early return: it writes the
\* empty text to the temporary file and runs the parser process on it; it
\* raises when the process fails, and when the process reports no fact it
\* returns score 0.0 and missing = the requested keys among interfaces,
\* type_annotations, script_lang and (with a truthy value) imports.
C16_EmptyInput ==
    (AstDone /\ EmptyCode) =>
        IF IsAstBased
        THEN /\ vcall.out.spawned
             /\ vcall.out.written = ""
             /\ (~vcall.out.raised /\ vcall.out.report = NoReport) =>
                    /\ vcall.out.score = 0
                    /\ vcall.out.missing =
                         {k \in vcall.expected.keys :
                            \/ k \in {"interfaces", "type_annotations",
                                      "script_lang"}
                            \/ k = "imports" /\ vcall.expected.imports_value}
        ELSE /\ ~vcall.out.raised
             /\ vcall.out.score = 0
             /\ vcall.out.missing = vcall.expected.keys
             /\ ~vcall.out.spawned

\* C16 witness: the AST-based validator ran the parser on the empty file of
\* a None code; the report held no fact, and the key the validator does not
\* know is not in missing.
C16_Witness ==
    /\ AstDone /\ IsAstBased /\ vcall.code = "None"
    /\ vcall.out.spawned /\ vcall.out.written = ""
    /\ ~vcall.out.raised /\ vcall.out.report = NoReport
    /\ vcall.expected.keys = {"interfaces", "other"}
    /\ vcall.out.missing = {"interfaces"}

\* the AST-based validator returned a result
AstReturned == AstDone /\ IsAstBased /\ ~vcall.out.raised

\* the weight of a fact that is requested and reported, in hundredths
RequestedWeight(key, reported, weight) ==
    IF key \in vcall.expected.keys /\ reported THEN weight ELSE 0

\* C17 as stated: the AST-based score is the sum, rounded to one decimal, of
\* the weights (3.3, 3.3, 3.4) of the facts that are requested in the
\* expected mapping and reported present, and a fact that is not requested
\* is not listed in missing.
C17_Original ==
    AstReturned =>
        /\ vcall.out.score =
              Round1(RequestedWeight("interfaces",
                                     vcall.out.report.has_interfaces, 330)
                     + RequestedWeight("type_annotations",
                                       vcall.out.report.has_type_annotations,
                                       330)
                     + RequestedWeight("script_lang",
                                       vcall.out.report.has_script_lang_ts,
                                       340))
        /\ vcall.out.missing \subseteq vcall.expected.keys

\* C17, the part that holds: a key that is not requested is never listed in
\* missing.
C17_MissingRequestedOnly ==
    AstReturned => vcall.out.missing \subseteq vcall.expected.keys

\* C17, the failing input: only script_lang is requested, the parser reports
\* the typed-script marker and the interfaces, and the score is 6.7.
C17_UnrequestedScored ==
    /\ AstReturned /\ vcall.code = "component"
    /\ vcall.expected.keys = {"script_lang"}
    /\ vcall.out.report.has_script_lang_ts
    /\ vcall.out.report.has_interfaces
    /\ ~vcall.out.report.has_type_annotations
    /\ vcall.out.score = 67
    /\ vcall.out.missing = {}

\* the regex-based validator returned a result for a code that is not empty
RegexScored ==
    /\ AstDone /\ ~IsAstBased
    /\ ~vcall.code.isNone /\ vcall.code.text # {}

\* the field name stands in the text as a word of its own
NamePresent(f) ==
    \/ f \in vcall.code.text
    \/ f = "email" /\ "errors.email" \in vcall.code.text

\* the categories of the five that are requested and satisfied
SatisfiedCategories ==
    {c \in {"typed-script marker", "useForm call", "schema", "fields",
            "error display"} :
        \/ /\ c = "typed-script marker"
           /\ vcall.expected.script_lang = "ts"
           /\ "<script setup lang=\"ts\">" \in vcall.code.text
        \/ /\ c = "useForm call"
           /\ "use_form" \in vcall.expected.keys
           /\ "useForm(" \in vcall.code.text
        \/ /\ c = "schema"
           /\ vcall.expected.keys \cap {"zod_schema", "typed_schema"} # {}
           /\ "z.object(" \in vcall.code.text
           /\ "toTypedSchema(" \in vcall.code.text
        \/ /\ c = "fields"
           /\ vcall.expected.fields # <<>>
           /\ \A i \in 1..Len(vcall.expected.fields) :
                 NamePresent(vcall.expected.fields[i])
        \/ /\ c = "error display"
           /\ "error_display" \in vcall.expected.keys
           /\ \/ "errors.email" \in vcall.code.text
              \/ "<ErrorMessage" \in vcall.code.text}

\* C18: for a code that is not empty the regex-based score is 2.0 times the
\* number of satisfied categories among the five, hence one of 0, 2, 4, 6, 8,
\* 10; the schema category needs both z.object( and toTypedSchema(, the
\* fields category every required field name, the error-display category
\* either errors.<name> or <ErrorMessage, and a category that is not
\* requested adds nothing.
C18_RegexScore ==
    RegexScored =>
        /\ vcall.out.score = 20 * Cardinality(SatisfiedCategories)
        /\ vcall.out.score \in {0, 20, 40, 60, 80, 100}

\* C18 witness: all five categories are requested; z.object( stands without
\* toTypedSchema(, one of the two required fields is absent, <ErrorMessage
\* shows the errors; the marker, useForm( and the error display make 6.0.
C18_Witness ==
    /\ RegexScored
    /\ vcall.expected.keys = PatternKeys \ {"other"}
    /\ vcall.expected.script_lang = "ts"
    /\ vcall.expected.fields = <<"email", "password">>
    /\ vcall.code.text = {"<script setup lang=\"ts\">", "useForm(",
                          "z.object(", "email", "<ErrorMessage"}
    /\ vcall.out.score = 60
    /\ vcall.out.missing = {"typed_schema", "fields"}

\* a call of validate_naming that returned
NamingDone == vcall.fn = "validate_naming" /\ vcall.out.done

\* the name ends with one of the suffixes of the list
EndsWithOneOf(name, list) ==
    \E i \in 1..Len(list) : EndsWith(name, list[i])

\* the declaration violates a rule that the conventions configure and that
\* the module of the call reads: PascalCase, the suffix list (typed-emits
\* module only) or else the legacy suffix for an interface; camelCase for a
\* variable
ViolatesRule(name) ==
    LET c == vcall.conventions IN
    IF vcall.variant = "creation/veevalidate_zod_form"
    THEN c.variables = "camelCase" /\ ~FirstIsLower(name)
    ELSE \/ c.interfaces = "PascalCase" /\ ~FirstIsUpper(name)
         \/ /\ vcall.variant = "refactoring/typed_emits_composable"
            /\ ~c.interface_suffixes.isNone
            /\ ~EndsWithOneOf(name, c.interface_suffixes.list)
         \/ /\ \/ vcall.variant # "refactoring/typed_emits_composable"
               \/ c.interface_suffixes.isNone
            /\ ~c.props_interface_suffix.isNone
            /\ c.props_interface_suffix.suffix # <<>>
            /\ ~EndsWith(name, c.props_interface_suffix.suffix)

SuffixViolationOf(name) ==
    \E i \in 1..Len(vcall.out.violations) :
        /\ vcall.out.violations[i].name = name
        /\ vcall.out.violations[i].rule
              \in {"interface_suffixes", "props_interface_suffix"}

\* the suffix rule as the claim states it: the list when one is configured,
\* the legacy suffix only when none is
SuffixRuleBroken(name) ==
    LET c == vcall.conventions IN
    IF ~c.interface_suffixes.isNone
    THEN ~EndsWithOneOf(name, c.interface_suffixes.list)
    ELSE /\ ~c.props_interface_suffix.isNone
         /\ c.props_interface_suffix.suffix # <<>>
         /\ ~EndsWith(name, c.props_interface_suffix.suffix)

\* the suffix rule of the result is the one the claim states
PrecedenceHolds ==
    \A i \in 1..Len(vcall.code) :
        SuffixViolationOf(vcall.code[i]) <=> SuffixRuleBroken(vcall.code[i])

\* C20 as stated: in the interface-naming validators of the refactoring and
\* of the agentic family, a configured list of suffixes is the only suffix
\* rule applied (an interface passes iff its name ends with a listed
\* suffix), and the legacy suffix is applied only when no list is
\* configured.
C20_Original ==
    (NamingDone /\ vcall.variant \in {"refactoring/typed_emits_composable",
                                      "agent/ts_bugfix"})
        => PrecedenceHolds

\* C20, the part that holds: the typed-emits validator of the refactoring
\* family applies the list when one is configured and the legacy suffix
\* otherwise.
C20_TypedEmitsPrecedence ==
    (NamingDone /\ vcall.variant = "refactoring/typed_emits_composable")
        => PrecedenceHolds

\* C20, the failing input: the agentic validator is given the list
\* [Props, Emits] and the legacy suffix Props; UserEmits ends with a listed
\* suffix and is reported for the legacy one, score 0.0.
C20_LegacyApplied ==
    /\ NamingDone /\ vcall.variant = "agent/ts_bugfix"
    /\ vcall.code = << <<"User", "Emits">> >>
    /\ vcall.conventions.interface_suffixes =
         [isNone |-> FALSE, list |-> << <<"Props">>, <<"Emits">> >>]
    /\ vcall.conventions.props_interface_suffix =
         [isNone |-> FALSE, suffix |-> <<"Props">>]
    /\ vcall.out.violations =
         << [name |-> <<"User", "Emits">>, rule |-> "props_interface_suffix"] >>
    /\ vcall.out.score = 0

\* the external process of the call ran into its time bound: the result is
\* the one the code builds for the timeout, or the timeout exception
TimedOut ==
    /\ vcall.out.done
    /\ CASE vcall.fn = "validate_ast_structure" /\ IsAstBased ->
                vcall.out.exc = "TimeoutExpired"
         [] vcall.fn = "validate_compilation" ->
                \/ vcall.out.exc = "TimeoutExpired"
                \/ vcall.out.errors =
                      <<"Compilation timeout after 30 seconds">>
         [] vcall.fn = "run_compilation" ->
                \/ vcall.out.exc = "TimeoutExpired"
                \/ vcall.out.text = "Compilation timed out after 60 seconds."
         [] OTHER -> FALSE

\* the structured failure value of the call
StructuredFailure ==
    CASE vcall.fn = "validate_compilation" ->
            ~vcall.out.success /\ Len(vcall.out.errors) = 1
      [] vcall.fn = "run_compilation" -> vcall.out.error
      [] OTHER -> FALSE

\* C21 as stated: a compiler or parser process that exceeds its time bound
\* is turned into a structured failure value by validate_compilation,
\* validate_ast_structure and run_compilation, and no timeout exception
\* leaves them.
C21_Original ==
    TimedOut => (~vcall.out.raised /\ StructuredFailure)

\* C21, the part that holds: validate_compilation and run_compilation turn
\* the timeout of the compiler into their failure value.
C21_CompilerTimeout ==
    (TimedOut /\ vcall.fn \in {"validate_compilation", "run_compilation"})
        => (~vcall.out.raised /\ StructuredFailure)

\* C21, the failing input: the parser process exceeds its 10 seconds and
\* subprocess.TimeoutExpired leaves validate_ast_structure.
C21_ParserTimeoutRaised ==
    /\ AstDone /\ IsAstBased /\ vcall.code = "component"
    /\ vcall.out.raised /\ vcall.out.exc = "TimeoutExpired"

\* the keys of expected_patterns through which a category is requested
CategoryKeys(c) ==
    CASE c = "typed-script marker" -> {"script_lang"}
      [] c = "useForm call"        -> {"use_form"}
      [] c = "schema"              -> {"zod_schema", "typed_schema"}
      [] c = "fields"              -> {"fields"}
      [] c = "error display"       -> {"error_display"}

\* the categories of the five that the call requests
RequestedCategories ==
    {c \in {"typed-script marker", "useForm call", "schema", "fields",
            "error display"} :
        \/ c = "typed-script marker" /\ vcall.expected.script_lang = "ts"
        \/ c = "useForm call" /\ "use_form" \in vcall.expected.keys
        \/ c = "schema"
              /\ vcall.expected.keys \cap {"zod_schema", "typed_schema"} # {}
        \/ c = "fields" /\ vcall.expected.fields # <<>>
        \/ c = "error display" /\ "error_display" \in vcall.expected.keys}

\* a requested category earns nothing exactly when one of its keys is missing
MissingTellsFailure(c) ==
    (c \notin SatisfiedCategories) <=> (CategoryKeys(c) \cap vcall.out.missing # {})

\* C29 as stated: for a code that is not empty, a requested category fails to
\* earn its 2.0 points if and only if a key of that category is in missing;
\* missing is empty iff the score is 2.0 times the number of requested
\* categories, the schema category being requested through either or both of
\* zod_schema and typed_schema.
C29_Original ==
    RegexScored =>
        /\ \A c \in RequestedCategories : MissingTellsFailure(c)
        /\ (vcall.out.missing = {})
              <=> (vcall.out.score = 20 * Cardinality(RequestedCategories))

\* the equivalence holds for the four other categories, and for the schema
\* category when both of its keys are requested
C29_FullyRequested ==
    RegexScored =>
        \A c \in RequestedCategories :
            (c = "schema" => {"zod_schema", "typed_schema"} \subseteq vcall.expected.keys)
                => MissingTellsFailure(c)

\* the failing case: the schema is requested through zod_schema alone, the
\* code calls z.object( and not toTypedSchema(; no schema points, and missing
\* is empty
C29_HalfRequestedSchema ==
    /\ RegexScored
    /\ vcall.expected.keys = {"zod_schema"}
    /\ vcall.code.text = {"z.object("}
    /\ vcall.out.score = 0
    /\ vcall.out.missing = {}

----------------------------------------------------------------------------
(* Claims about the inference client, checked under SpecChat *)

\* the lower-cased text of the exception holds one of the two keywords
Says(k1, k2) ==
    \E piece \in vcall.text :
        \/ Lower(piece) \in {k1, k2}
        \/ Lower(piece) = "model 'm' not found" /\ "not found" \in {k1, k2}

\* C22: an exception in chat() is classified by its lower-cased text in the
\* order not found / does not exist (ModelNotFoundError), connection /
\* refused (OllamaConnectionError), timeout / timed out (TimeoutError), the
\* first match winning; a text without any of them re-raises the original
\* exception, and a failed call never returns a ChatResult.
C22_Taxonomy ==
    (vcall.out.done /\ vcall.backend = "exception") =>
        /\ vcall.out.raised
        /\ vcall.out.exc =
             IF Says("not found", "does not exist")
             THEN "ModelNotFoundError"
             ELSE IF Says("connection", "refused")
             THEN "OllamaConnectionError"
             ELSE IF Says("timeout", "timed out") THEN "TimeoutError"
             ELSE "original"

\* C22 witness: "Connection ... timed out" matches the second and the third
\* category and leaves chat() as an OllamaConnectionError.
C22_Witness ==
    /\ vcall.out.done
    /\ vcall.text = {"Connection", "timed out"}
    /\ vcall.out.raised /\ vcall.out.exc = "OllamaConnectionError"

\* C23: every response gives a ChatResult with success=True and error=None;
\* absent timing or token fields give duration 0, tokens 0 and rate 0.0, and
\* the rate is 0.0 whenever the duration or the token count is zero.
C23_ZeroSafe ==
    (vcall.out.done /\ vcall.backend = "response") =>
        /\ ~vcall.out.raised
        /\ vcall.out.success /\ vcall.out.error = "None"
        /\ ~vcall.response.eval_duration.has => vcall.out.duration_sec = 0
        /\ ~vcall.response.eval_count.has => vcall.out.tokens_generated = 0
        /\ (vcall.out.duration_sec = 0 \/ vcall.out.tokens_generated = 0)
              => vcall.out.tokens_per_sec = 0
        /\ (vcall.out.duration_sec > 0 /\ vcall.out.tokens_generated > 0)
              => vcall.out.tokens_per_sec > 0

\* C23 witness: the response has tokens but no timing; the result counts 10
\* tokens in 0 seconds at 0.0 tokens per second.
C23_Witness ==
    /\ vcall.out.done /\ vcall.backend = "response"
    /\ ~vcall.response.eval_duration.has
    /\ vcall.out.tokens_generated = 10
    /\ vcall.out.duration_sec = 0
    /\ vcall.out.tokens_per_sec = 0
    /\ vcall.out.success

----------------------------------------------------------------------------
(* Claims about code extraction, checked under SpecExtract *)

\* the fenced blocks of a response, read from line p on: a fence line opens
\* a block, the next bare fence line closes it
RECURSIVE BlocksFrom(_, _)
BlocksFrom(response, p) ==
    IF p > Len(response) THEN <<>>
    ELSE IF ~IsFence(response[p]) THEN BlocksFrom(response, p + 1)
    ELSE LET closers == {q \in (p + 1)..Len(response) : response[q] = "<fence>"}
         IN IF closers = {} THEN <<>>
            ELSE << [tag |-> response[p],
                     body |-> SubSeq(response, p + 1, Min(closers) - 1)] >>
                 \o BlocksFrom(response, Min(closers) + 1)

\* the artifact the claim describes
FirstBlockBody(blocks, tags) ==
    LET hits == {k \in 1..Len(blocks) : blocks[k].tag \in tags}
    IN Strip(blocks[Min(hits)].body)

ClaimedArtifact(response) ==
    LET blocks == BlocksFrom(response, 1) IN
    IF \E k \in 1..Len(blocks) : blocks[k].tag = "<fence>vue"
    THEN FirstBlockBody(blocks, {"<fence>vue"})
    ELSE IF blocks # <<>>
    THEN FirstBlockBody(blocks, {"<fence>vue", "<fence>ts", "<fence>"})
    ELSE Strip(response)

\* C24 as stated: the extracted code is the trimmed body of the first block
\* fenced for vue, otherwise of the first fenced block of any kind (tagged
\* or not), otherwise the whole response trimmed.
C24_Original ==
    vcall.out.done => vcall.out.code = ClaimedArtifact(vcall.response)

\* C24, the failing input: the only block is tagged ts; the artifact is the
\* whole response with its two fence lines.
C24_OtherTagKept ==
    /\ vcall.out.done
    /\ vcall.response = <<"<fence>ts", "A", "<fence>">>
    /\ vcall.out.code = <<"<fence>ts", "A", "<fence>">>

\* C24, the failing input with two blocks tagged ts: the artifact is the
\* text between them.
C24_BetweenBlocks ==
    /\ vcall.out.done
    /\ vcall.response = <<"<fence>ts", "<fence>", "B", "<fence>ts", "<fence>">>
    /\ vcall.out.code = <<"B">>

----------------------------------------------------------------------------
(* Claims about the GPU monitor, checked under SpecGpu *)

\* the main thread is between line 189 and the construction of the metrics
Aggregating ==
    /\ IsGpu
    /\ vcall.main \in {"line189", "sum_u", "len_u", "max_u", "sum_m", "len_m",
                       "max_m", "line208"}

\* the metrics of the first n samples of both lists
MetricsOfFirst(n) ==
    LET u  == SubSeq(vcall.utilization_samples, 1, n)
        mm == SubSeq(vcall.memory_samples, 1, n)
    IN  MetricsOf([sum_u |-> SumOf(u), len_u |-> n, max_u |-> MaxOf(u),
                   sum_m |-> SumOf(mm), len_m |-> n, max_m |-> MaxOf(mm)], n)

Quiescent ==
    /\ Aggregating =>
          /\ vcall.poller = "done"
          /\ Len(vcall.utilization_samples) = Len(vcall.memory_samples)
    /\ (vcall.main = "returned" /\ vcall.out.samples > 0) =>
          /\ Len(vcall.memory_samples) >= vcall.out.samples
          /\ vcall.out = MetricsOfFirst(vcall.out.samples)

\* C27 as stated: once the callback has returned or raised, the stop signal
\* is cleared; when the main thread computes the aggregate metrics the poller
\* is no longer appending, so the two sample lists have the same length and
\* the samples count, the averages and the peaks are computed from the same
\* set of samples.
C27_Original ==
    IsGpu =>
        /\ vcall.main \in {"join", "raised", "returned"} \cup
              {"line189", "sum_u", "len_u", "max_u", "sum_m", "len_m", "max_m",
               "line208"}
              => (vcall.available => ~vcall.monitoring_active)
        /\ Quiescent

\* the part of C27 that holds: the stop signal is cleared when the callback
\* has ended, and the metrics are consistent whenever join returned because
\* the poller had ended
C27_WhenJoined ==
    IsGpu =>
        /\ vcall.main \notin {"start", "callback"}
              => (vcall.available => ~vcall.monitoring_active)
        /\ ~vcall.join_timed_out => Quiescent

\* the part of C27 that holds under fair scheduling: once the stop signal is
\* cleared the poller terminates
C27_PollerTerminates ==
    (IsGpu /\ vcall.main = "join") ~> (vcall.poller = "done")

\* the failing case: join timed out during a poll, the poll ended while the
\* main thread was aggregating; the average is taken over one sample and the
\* samples count is 2
C27_AppendWhileAggregating ==
    /\ IsGpu /\ vcall.main = "returned" /\ vcall.join_timed_out
    /\ vcall.out.samples = 2 /\ vcall.reads.len_u = 1
    /\ vcall.out.avg_utilization = 80000
    /\ vcall.utilization_samples = <<80, 90>>

\* a second failing case: the main thread reads memory_samples between the
\* two appends of the first good poll and divides by zero
C27_DivisionByZero ==
    /\ IsGpu /\ vcall.main = "raised" /\ vcall.exc = "ZeroDivisionError"
    /\ vcall.utilization_samples # <<>> /\ vcall.memory_samples = <<>>

\* the poll ended well: exit status 0 and a first line "<number or [N/A]>,
\* <number or [N/A]>"
GoodPoll(r) ==
    /\ r.kind = "completed" /\ r.returncode = 0
    /\ Len(r.stdout) = 2
    /\ \A i \in {1, 2} : r.stdout[i] \in {"80", "90", "10000", "12000", "[N/A]"}

GoodPolls(h) == { i \in 1..Len(h) : GoodPoll(h[i]) }

C28_Step ==
    IsGpu =>
        /\ (Len(vcall'.history) = Len(vcall.history) + 1) =>
              LET r == vcall'.history[Len(vcall'.history)]
              IN  IF GoodPoll(r)
                  THEN Len(vcall'.utilization_samples)
                           = Len(vcall.utilization_samples) + 1
                  ELSE /\ vcall'.utilization_samples = vcall.utilization_samples
                       /\ vcall'.memory_samples = vcall.memory_samples
                       /\ vcall'.poller = "sleep"
        /\ \A i \in 1..Len(vcall.utilization_samples) :
              /\ i <= Len(vcall'.utilization_samples)
              /\ vcall'.utilization_samples[i] = vcall.utilization_samples[i]
        /\ \A i \in 1..Len(vcall.memory_samples) :
              /\ i <= Len(vcall'.memory_samples)
              /\ vcall'.memory_samples[i] = vcall.memory_samples[i]
        /\ (vcall.poller = "sleep" /\ vcall'.poller # "sleep") =>
              vcall'.poller = "test"
        /\ (vcall.main # "returned" /\ vcall'.main = "returned") =>
              /\ vcall'.out.samples = Cardinality(GoodPolls(vcall'.history))
              /\ GoodPolls(vcall'.history) = {} => vcall'.out = ZeroMetrics

\* C28: in every interleaving of polls that end well and polls that fail
\* (non-zero exit status, unparsable output, an exception of the poll), a
\* failed poll adds no sample and removes none and the polling goes on with
\* the next interval; the samples count returned is the number of polls that
\* ended well; without such a poll all metrics are 0.0 and samples is 0.
C28_FailuresSkipped == [][C28_Step]_vars

\* C28 witness: a good poll, then a poll with a non-zero exit status and one
\* that raised, then the return with one sample.
C28_Witness ==
    /\ IsGpu /\ vcall.main = "returned"
    /\ Len(vcall.history) = 3
    /\ GoodPoll(vcall.history[1])
    /\ vcall.history[2].returncode = 1
    /\ vcall.history[3].kind = "exception"
    /\ vcall.out.samples = 1
    /\ vcall.utilization_samples = <<90>> /\ vcall.memory_samples = <<12000>>
    /\ vcall.out.avg_utilization = 90000

\* C28 witness of the empty case: three polls failed, one of each kind, and
\* the metrics returned are all 0.0
C28_NoGoodPoll ==
    /\ IsGpu /\ vcall.main = "returned"
    /\ Len(vcall.history) = 3 /\ GoodPolls(vcall.history) = {}
    /\ { vcall.history[i].kind : i \in 1..3 } = {"completed", "exception"}
    /\ \E i \in 1..3 : vcall.history[i].returncode = 1
    /\ \E i \in 1..3 : vcall.history[i].stdout = <<"x", "10000">>
    /\ vcall.out = ZeroMetrics

====
